---- MODULE Spec2Model ----
(***************************************************************************)
(* Model of the extraction core of court-docs-pipeline                     *)
(* (src/parse_court_docs.py): the pattern library, the tabular event-list  *)
(* extractor (Pass A row regex, Pass B streaming block parse), the         *)
(* single-document extractor and the orchestrator parse_all.               *)
(*                                                                         *)
(* Text is modelled as text: a document is a string with "\n" line breaks, *)
(* the regular expressions of the source are transcribed item by item and  *)
(* run by a small backtracking matcher.                                    *)
(***************************************************************************)
EXTENDS Integers, Sequences, FiniteSets, TLC

(***************************************************************************)
(* Strings                                                                 *)
(***************************************************************************)
Ch(s, n) == SubSeq(s, n, n)

LowerAlpha == "abcdefghijklmnopqrstuvwxyz"
UpperAlpha == "ABCDEFGHIJKLMNOPQRSTUVWXYZ"
Digits == {"0", "1", "2", "3", "4", "5", "6", "7", "8", "9"}
Lowers == {"a", "b", "c", "d", "e", "f", "g", "h", "i", "j", "k", "l", "m"}
          \cup {"n", "o", "p", "q", "r", "s", "t", "u", "v", "w", "x", "y", "z"}
Uppers == {"A", "B", "C", "D", "E", "F", "G", "H", "I", "J", "K", "L", "M"}
          \cup {"N", "O", "P", "Q", "R", "S", "T", "U", "V", "W", "X", "Y", "Z"}
Alphas == Lowers \cup Uppers
WordChars == Alphas \cup Digits \cup {"_"}
Spaces == {" ", "\n", "\t"}
Puncts == {"/", "-", ".", ",", ":"}
\* '.' of a regular expression: any character but the line break
AnyChar == Alphas \cup Digits \cup {"_", " ", "\t"} \cup Puncts

Min2(a, b) == IF a < b THEN a ELSE b
MinOf(S) == CHOOSE m \in S : \A o \in S : m <= o
MaxOf(S) == CHOOSE m \in S : \A o \in S : m >= o

AlphaIndex(alphabet, c) == CHOOSE n \in 1..26 : Ch(alphabet, n) = c
LowerCh(c) == IF c \in Uppers THEN Ch(LowerAlpha, AlphaIndex(UpperAlpha, c)) ELSE c
UpperCh(c) == IF c \in Lowers THEN Ch(UpperAlpha, AlphaIndex(LowerAlpha, c)) ELSE c

\* str.lower() / str.upper(): character by character, by halves to keep the
\* evaluation shallow on long texts
RECURSIVE MapLower(_, _, _)
MapLower(s, a, b) ==
    IF a > b THEN ""
    ELSE IF a = b THEN LowerCh(Ch(s, a))
    ELSE LET m == (a + b) \div 2 IN MapLower(s, a, m) \o MapLower(s, m + 1, b)
lower(s) == MapLower(s, 1, Len(s))

RECURSIVE MapUpper(_, _, _)
MapUpper(s, a, b) ==
    IF a > b THEN ""
    ELSE IF a = b THEN UpperCh(Ch(s, a))
    ELSE LET m == (a + b) \div 2 IN MapUpper(s, a, m) \o MapUpper(s, m + 1, b)
upper(s) == MapUpper(s, 1, Len(s))

\* `sub in s`
Contains(s, sub) ==
    \E p \in 1..(Len(s) - Len(sub) + 1) : SubSeq(s, p, p + Len(sub) - 1) = sub

StartsWith(s, p) == Len(p) <= Len(s) /\ SubSeq(s, 1, Len(p)) = p

\* str.strip() / str.rstrip()
RECURSIVE FirstNonSpace(_, _)
FirstNonSpace(s, p) ==
    IF p > Len(s) \/ Ch(s, p) \notin Spaces THEN p ELSE FirstNonSpace(s, p + 1)
RECURSIVE LastNonSpace(_, _)
LastNonSpace(s, p) ==
    IF p < 1 \/ Ch(s, p) \notin Spaces THEN p ELSE LastNonSpace(s, p - 1)
strip(s) == SubSeq(s, FirstNonSpace(s, 1), LastNonSpace(s, Len(s)))
rstrip(s) == SubSeq(s, 1, LastNonSpace(s, Len(s)))

\* str.replace(" ", "")
RECURSIVE DropChars(_, _, _, _)
DropChars(s, cs, a, b) ==
    IF a > b THEN ""
    ELSE IF a = b THEN (IF Ch(s, a) \in cs THEN "" ELSE Ch(s, a))
    ELSE LET m == (a + b) \div 2 IN DropChars(s, cs, a, m) \o DropChars(s, cs, m + 1, b)
RemoveSpaces(s) == DropChars(s, {" "}, 1, Len(s))

\* re.sub(r"[^0-9]", "", s)
DigitsOnly(s) == DropChars(s, (AnyChar \cup Spaces) \ Digits, 1, Len(s))

\* str.splitlines() for texts whose only line break is "\n"
RECURSIVE NextBreak(_, _)
NextBreak(s, p) == IF p > Len(s) \/ Ch(s, p) = "\n" THEN p ELSE NextBreak(s, p + 1)
RECURSIVE SplitFrom(_, _)
SplitFrom(s, start) ==
    IF start > Len(s) THEN <<>>
    ELSE LET e == NextBreak(s, start)
         IN <<SubSeq(s, start, e - 1)>> \o SplitFrom(s, e + 1)
splitlines(s) == SplitFrom(s, 1)

\* "\n".join(lines)
RECURSIVE JoinLines(_)
JoinLines(ls) ==
    IF Len(ls) = 0 THEN ""
    ELSE IF Len(ls) = 1 THEN ls[1]
    ELSE ls[1] \o "\n" \o JoinLines(Tail(ls))

RECURSIVE JoinWith(_, _)
JoinWith(ls, sep) ==
    IF Len(ls) = 0 THEN ""
    ELSE IF Len(ls) = 1 THEN ls[1]
    ELSE ls[1] \o sep \o JoinWith(Tail(ls), sep)

\* f"{n:02d}"
Pad2(n) == IF n < 10 THEN "0" \o ToString(n) ELSE ToString(n)

(***************************************************************************)
(* Regular expressions: a pattern is a sequence of items, each a character *)
(* class with a repetition range (greedy or lazy), a word boundary \b or   *)
(* the end anchor $.  hi = -1 stands for "no upper limit".                 *)
(***************************************************************************)
Cls(cs, lo, hi) == [t |-> "c", cs |-> cs, lo |-> lo, hi |-> hi, lazy |-> FALSE]
LazyCls(cs, lo, hi) == [t |-> "c", cs |-> cs, lo |-> lo, hi |-> hi, lazy |-> TRUE]
WordB == [t |-> "b", cs |-> {}, lo |-> 0, hi |-> 0, lazy |-> FALSE]
EndA == [t |-> "$", cs |-> {}, lo |-> 0, hi |-> 0, lazy |-> FALSE]
Lit(str) == [n \in 1..Len(str) |-> Cls({Ch(str, n)}, 1, 1)]
\* a literal under re.I
LitI(str) == [n \in 1..Len(str) |-> Cls({LowerCh(Ch(str, n)), UpperCh(Ch(str, n))}, 1, 1)]

Fail == <<-1>>

IsWordAt(s, p) == p >= 1 /\ p <= Len(s) /\ Ch(s, p) \in WordChars
IsBoundary(s, pos) == IsWordAt(s, pos - 1) # IsWordAt(s, pos)

\* the longest run of characters of cs starting at pos, at most hi long
RECURSIVE RunLen(_, _, _, _)
RunLen(s, pos, cs, hi) ==
    IF hi = 0 \/ pos > Len(s) \/ Ch(s, pos) \notin cs THEN 0
    ELSE 1 + RunLen(s, pos + 1, cs, hi - 1)

\* Backtracking match of items k.. of pat at pos: the lengths taken by the
\* items, or Fail.  Greedy items try the longest repetition first, lazy
\* items the shortest.
RECURSIVE MatchFrom(_, _, _, _), TryCount(_, _, _, _, _, _)
MatchFrom(pat, k, s, pos) ==
    IF k > Len(pat) THEN <<>>
    ELSE LET it == pat[k] IN
         IF it.t = "b" THEN
            IF IsBoundary(s, pos)
            THEN LET rest == MatchFrom(pat, k + 1, s, pos)
                 IN IF rest = Fail THEN Fail ELSE <<0>> \o rest
            ELSE Fail
         ELSE IF it.t = "$" THEN
            IF pos = Len(s) + 1
            THEN LET rest == MatchFrom(pat, k + 1, s, pos)
                 IN IF rest = Fail THEN Fail ELSE <<0>> \o rest
            ELSE Fail
         ELSE LET run == RunLen(s, pos, it.cs, it.hi) IN
              IF run < it.lo THEN Fail
              ELSE TryCount(pat, k, s, pos, IF it.lazy THEN it.lo ELSE run, run)
TryCount(pat, k, s, pos, c, run) ==
    LET it == pat[k]
        rest == MatchFrom(pat, k + 1, s, pos + c)
    IN IF rest # Fail THEN <<c>> \o rest
       ELSE IF it.lazy THEN (IF c + 1 > run THEN Fail ELSE TryCount(pat, k, s, pos, c + 1, run))
       ELSE (IF c - 1 < it.lo THEN Fail ELSE TryCount(pat, k, s, pos, c - 1, run))

RECURSIVE SumSeq(_)
SumSeq(q) == IF Len(q) = 0 THEN 0 ELSE q[1] + SumSeq(Tail(q))

NoMatch == [pos |-> 0, lens |-> <<>>]
\* pattern.match(s): anchored at the start
re_match(pat, s) ==
    LET r == MatchFrom(pat, 1, s, 1)
    IN IF r = Fail THEN NoMatch ELSE [pos |-> 1, lens |-> r]
\* pattern.search(s): the leftmost match
\* the first position in a..b at which pat matches, 0 if none (searched by halves)
RECURSIVE SearchIn(_, _, _, _)
SearchIn(pat, s, a, b) ==
    IF a > b THEN 0
    ELSE IF a = b THEN (IF MatchFrom(pat, 1, s, a) # Fail THEN a ELSE 0)
    ELSE LET m == (a + b) \div 2
             left == SearchIn(pat, s, a, m)
         IN IF left # 0 THEN left ELSE SearchIn(pat, s, m + 1, b)
re_search(pat, s) ==
    LET p == SearchIn(pat, s, 1, Len(s) + 1)
    IN IF p = 0 THEN NoMatch ELSE [pos |-> p, lens |-> MatchFrom(pat, 1, s, p)]
\* m.group(0)
Group0(s, m) == SubSeq(s, m.pos, m.pos + SumSeq(m.lens) - 1)
\* the text taken by items a..b of the pattern
GroupItems(s, m, a, b) ==
    LET start == m.pos + SumSeq(SubSeq(m.lens, 1, a - 1))
    IN SubSeq(s, start, start + SumSeq(SubSeq(m.lens, a, b)) - 1)

(***************************************************************************)
(* Pattern library                                                         *)
(***************************************************************************)
CASE_PATTERNS == <<
    <<Cls(Digits, 2, 2)>> \o Lit("-") \o <<Cls(Uppers, 2, 2)>> \o Lit("-") \o <<Cls(Digits, 4, 4)>>,
    <<Cls(Digits, 4, 4)>> \o Lit("-") \o <<Cls(Digits, 6, -1)>> \o Lit("-") \o <<Cls(Uppers, 2, 2)>>,
    <<Cls(Digits, 4, 4)>> \o Lit("-") \o <<Cls(Digits, 6, -1)>> \o Lit("-")
        \o <<Cls(Spaces, 0, -1), Cls(Uppers, 2, 2)>>,
    Lit("DEMO-") \o <<Cls(Digits, 4, 4)>> \o Lit("-") \o <<Cls(Digits, 4, 4)>> >>

\* the date patterns with the US-slash pattern tried before the ISO pattern
DATE_PATTERNS_slash_first == <<
    <<WordB, Cls(Digits, 1, 2)>> \o Lit("/") \o <<Cls(Digits, 1, 2)>> \o Lit("/")
        \o <<Cls(Digits, 2, 4), WordB>>,
    <<WordB, Cls(Digits, 4, 4)>> \o Lit("-") \o <<Cls(Digits, 2, 2)>> \o Lit("-")
        \o <<Cls(Digits, 2, 2), WordB>>,
    <<WordB, Cls(Alphas, 3, 9), Cls(Spaces, 1, -1), Cls(Digits, 1, 2)>> \o Lit(",")
        \o <<Cls(Spaces, 0, -1), Cls(Digits, 4, 4), WordB>>,
    <<WordB, Cls(Digits, 1, 2), Cls(Spaces, 1, -1), Cls(Alphas, 3, 9), Cls(Spaces, 1, -1),
      Cls(Digits, 4, 4), WordB>> >>

DATE_PATTERNS == <<
    <<WordB, Cls(Digits, 4, 4)>> \o Lit("-") \o <<Cls(Digits, 2, 2)>> \o Lit("-")
        \o <<Cls(Digits, 2, 2), WordB>>,
    <<WordB, Cls(Digits, 1, 2)>> \o Lit("/") \o <<Cls(Digits, 1, 2)>> \o Lit("/")
        \o <<Cls(Digits, 2, 4), WordB>>,
    <<WordB, Cls(Alphas, 3, 9), Cls(Spaces, 1, -1), Cls(Digits, 1, 2)>> \o Lit(",")
        \o <<Cls(Spaces, 0, -1), Cls(Digits, 4, 4), WordB>>,
    <<WordB, Cls(Digits, 1, 2), Cls(Spaces, 1, -1), Cls(Alphas, 3, 9), Cls(Spaces, 1, -1),
      Cls(Digits, 4, 4), WordB>> >>

RECURSIVE FirstMatchFrom(_, _, _)
FirstMatchFrom(patterns, k, text) ==
    IF k > Len(patterns) THEN ""
    ELSE LET m == re_search(patterns[k], text)
         IN IF m # NoMatch THEN Group0(text, m) ELSE FirstMatchFrom(patterns, k + 1, text)
first_match(patterns, text) == FirstMatchFrom(patterns, 1, text)

HeaderLen == 500
\* re.compile(r"Case ID\s+(\d{4}-\d{6,}-[A-Z]{2})", re.I)
label_pattern ==
    LitI("Case ID") \o <<Cls(Spaces, 1, -1), Cls(Digits, 4, 4)>> \o Lit("-")
        \o <<Cls(Digits, 6, -1)>> \o Lit("-") \o <<Cls(Alphas, 2, 2)>>
extract_case_from_table_header(text) ==
    LET header == SubSeq(text, 1, Min2(HeaderLen, Len(text)))
        match == first_match(CASE_PATTERNS, header)
        m == re_search(label_pattern, header)
    IN IF match # "" THEN match
       ELSE IF m # NoMatch THEN GroupItems(header, m, 9, 13) ELSE ""

\* the keyword table with "objection" moved to the front
DOC_TYPE_KEYWORDS_objection_first == <<
    <<"objection", "Objection">>,
    <<"petition", "Petition">>,
    <<"order appoint", "Order appointing fiduciary">>,
    <<"letters", "Letters of authority">>,
    <<"hearing notice", "Hearing Notice">>,
    <<"notice of hearing", "Hearing Notice">>,
    <<"proof of service", "Proof of service">>,
    <<"affidavit", "Affidavit">>,
    <<"bond", "Bond">>,
    <<"evaluation", "Evaluation">> >>

\* dictionaries are sequences of <<key, value>> pairs in definition order
DOC_TYPE_KEYWORDS == <<
    <<"petition", "Petition">>,
    <<"order appoint", "Order appointing fiduciary">>,
    <<"letters", "Letters of authority">>,
    <<"hearing notice", "Hearing Notice">>,
    <<"notice of hearing", "Hearing Notice">>,
    <<"proof of service", "Proof of service">>,
    <<"affidavit", "Affidavit">>,
    <<"objection", "Objection">>,
    <<"bond", "Bond">>,
    <<"evaluation", "Evaluation">> >>

EVENT_MAP == <<
    <<"Petition", "PGII">>,
    <<"Hearing Notice", "NOH">>,
    <<"Proof of service", "POS">>,
    <<"Objection", "OBJ">>,
    <<"Order appointing fiduciary", "OAF">>,
    <<"Letters of authority", "LET">>,
    <<"Affidavit", "AFF">>,
    <<"Bond", "BND">>,
    <<"Evaluation", "EVAL">> >>

\* dict.get(key, default)
DictGet(d, key, default) ==
    LET K == {n \in 1..Len(d) : d[n][1] = key}
    IN IF K = {} THEN default ELSE d[MinOf(K)][2]

\* the value of the first pair, in order, whose key occurs in text
FirstKeyIn(d, text, default) ==
    LET K == {n \in 1..Len(d) : Contains(text, d[n][1])}
    IN IF K = {} THEN default ELSE d[MinOf(K)][2]

detect_document_type(text) == FirstKeyIn(DOC_TYPE_KEYWORDS, lower(text), "")

NameStart == Alphas
detect_party(text, label) ==
    LET pattern == LitI(label) \o <<Cls({":", "-"}, 1, 1), Cls(Spaces, 0, -1), Cls(NameStart, 1, 1),
                                    Cls(Alphas \cup {".", ","} \cup Spaces, 1, -1)>>
        m == re_search(pattern, text)
    IN IF m # NoMatch THEN strip(GroupItems(text, m, Len(label) + 3, Len(label) + 4)) ELSE ""

detect_judge(text) ==
    LET tail == <<Cls({":"} \cup Spaces, 1, -1), Cls(NameStart, 1, 1),
                  Cls(Alphas \cup {"."} \cup Spaces, 1, -1)>>
        m == re_search(LitI("judge") \o tail, text)
        m2 == re_search(LitI("magistrate") \o tail, text)
    IN IF m # NoMatch THEN strip(GroupItems(text, m, 7, 8))
       ELSE IF m2 # NoMatch THEN strip(GroupItems(text, m2, 12, 13)) ELSE ""

select_event_code(doc_type) == DictGet(EVENT_MAP, doc_type, "")

\* the if-chain of map_desc_to_code, in source order
\* the chain with NOTICE tried before PETITION
KEYWORD_CHAIN_notice_first == <<
    <<"NOTICE", "NOH">>,
    <<"PETITION", "PGII">>,
    <<"PROOF", "POS">>,
    <<"ORDER", "OAF">>,
    <<"LETTER", "LET">>,
    <<"OBJECTION", "OBJ">> >>

KEYWORD_CHAIN == <<
    <<"PETITION", "PGII">>,
    <<"NOTICE", "NOH">>,
    <<"PROOF", "POS">>,
    <<"ORDER", "OAF">>,
    <<"LETTER", "LET">>,
    <<"OBJECTION", "OBJ">> >>

map_desc_to_code(desc, dynamic_map) ==
    LET up == upper(desc)
        hit == {n \in 1..Len(dynamic_map) : Contains(up, dynamic_map[n][1])}
    IN IF hit # {} THEN dynamic_map[MinOf(hit)][2]
       ELSE FirstKeyIn(KEYWORD_CHAIN, up, "")

\* the override map tried before the exact lookup in EVENT_MAP
event_code_for_override_first(doc_type, dynamic_map) == map_desc_to_code(doc_type, dynamic_map)

\* select_event_code(x) or map_desc_to_code(x, desc_map)
event_code_for(doc_type, dynamic_map) ==
    LET builtin == select_event_code(doc_type)
    IN IF builtin # "" THEN builtin ELSE map_desc_to_code(doc_type, dynamic_map)

\* load_event_type_map: a missing file is the empty map; keys and values are
\* upper-cased, pairs with an empty key or value dropped
load_event_type_map(file) ==
    IF ~file.exists THEN <<>>
    ELSE LET keep == SelectSeq(file.data, LAMBDA kv : kv[1] # "" /\ kv[2] # "")
         IN [n \in 1..Len(keep) |-> <<upper(keep[n][1]), upper(keep[n][2])>>]

\* load_event_vocab: a missing file is the empty vocabulary; rows without a
\* code are dropped, a later row of the same code replaces the earlier one
load_event_vocab(file) ==
    IF ~file.exists THEN <<>>
    ELSE LET keep == SelectSeq(file.data, LAMBDA r : strip(r[1]) # "")
             lastOf(n) == \A j \in (n + 1)..Len(keep) : strip(keep[j][1]) # strip(keep[n][1])
             idx == SelectSeq([n \in 1..Len(keep) |-> n], lastOf)
         IN [n \in 1..Len(idx) |-> <<strip(keep[idx[n]][1]), strip(keep[idx[n]][2])>>]

\* load_ocr_summary: pdf_name -> row, a missing file is the empty table
load_ocr_summary(file) ==
    IF ~file.exists THEN <<>>
    ELSE SelectSeq(file.data, LAMBDA r : strip(r[1]) # "")

\* the row shape without the leading blanks: the date has to open the line
row_pattern_no_indent ==
    <<Cls(Spaces, 0, 0), Cls(Digits, 2, 2)>> \o Lit("/") \o <<Cls(Digits, 2, 2)>> \o Lit("/")
        \o <<Cls(Digits, 4, 4), Cls(Spaces, 1, -1), LazyCls(AnyChar, 1, -1), Cls(Spaces, 1, -1),
             Cls(Digits, 1, -1), Cls(Spaces, 0, -1), EndA>>

\* re.compile(r"^\s*(\d{2}/\d{2}/\d{4})\s+(.+?)\s+(\d+)\s*$"), used with match()
row_pattern ==
    <<Cls(Spaces, 0, -1), Cls(Digits, 2, 2)>> \o Lit("/") \o <<Cls(Digits, 2, 2)>> \o Lit("/")
        \o <<Cls(Digits, 4, 4), Cls(Spaces, 1, -1), LazyCls(AnyChar, 1, -1), Cls(Spaces, 1, -1),
             Cls(Digits, 1, -1), Cls(Spaces, 0, -1), EndA>>
\* m.groups() of row_pattern: filed_date, desc, event_no
RowGroups(line, m) ==
    [filed_date |-> GroupItems(line, m, 2, 6),
     desc |-> GroupItems(line, m, 8, 8),
     event_no |-> GroupItems(line, m, 10, 10)]

(***************************************************************************)
(* Program constants and model bounds                                      *)
(***************************************************************************)
\* len(table_rows) >= 10: the table output is accepted
MinTableEvents == 10
\* len(parsed) < 30: Pass B runs
PassBLimit == 30
\* len(content.strip()) < 80: very short text
\* a short-text length one character longer
ShortTextLen_plus_one == 80 + 1
ShortTextLen == 80
\* len(document_type) < 3: description short
ShortDescLen == 3

\* files in the input directory
MaxFiles == 2
\* free blocks after the rows of a docket
MaxChunks == 3
\* words of a description handed to map_desc_to_code
MaxWords == 3

(***************************************************************************)
(* State                                                                   *)
(***************************************************************************)
VARIABLES
    refs,           \* the reference files on disk: events.csv, event_type_map.json, ocr summary
    text_files,     \* parse_all: sorted(raw_dir.glob("*.txt")), the file names
    vocab,          \* parse_all: code -> label
    desc_map,       \* parse_all: keyword -> code, in order
    ocr_summary,    \* parse_all: pdf name -> summary row
    fidx,           \* parse_all: position of the for loop in text_files
    rows,           \* parse_all: List[ParsedDoc]
    report,         \* parse_all: List[Dict]
    out,            \* the files written: court_docs_parsed.csv, parse_report.json
    pc,             \* the statement the program is at
    error,          \* the exception that ended the run, "" if none
    caller,         \* who called parse_events_table: parse_file_with_report or a direct call
    doc,            \* the document being parsed, as it was composed (line by line)
    file_name,      \* path.name of the file being parsed
    content,        \* parse_file_with_report: the text read
    case_number,    \* parse_file_with_report: case_number / parse_events_table: base_case
    summary_row,    \* the low_confidence value of the file's OCR summary row, "" if none
    warnings,       \* parse_file_with_report: warnings
    lines,          \* parse_events_table: lines
    parsed,         \* parse_events_table: parsed
    row_i,          \* parse_events_table: position of Pass A's for loop in lines
    passA_rows,     \* the records Pass A left in parsed when its loop ended
    passB_ran,      \* whether the body of `if len(parsed) < 30` was entered
    i,              \* Pass B: i (1-based)
    current_date,   \* Pass B: current_date
    pending,        \* Pass B: pending, a list of (date, description)
    seq,            \* Pass B: seq
    current_desc,   \* Pass B: current_desc
    desc_bound,     \* Pass B: whether the local name current_desc has been assigned
    returned,       \* what parse_file_with_report returned for each file so far
    arg_desc,       \* a direct call map_desc_to_code(desc, dynamic_map): desc, word by word
    arg_map,        \* a direct call map_desc_to_code(desc, dynamic_map): dynamic_map
    result,         \* a direct call: the value returned
    data_dir,       \* the names of the files under data/
    start_dir,      \* data_dir as it was when the run started
    table,          \* the rows of data/court_docs_parsed.csv, as they were composed
    killed,         \* run_pipeline: the step the system kills (0: none)
    ran,            \* run_pipeline: the commands run so far, each with its return code
    exit_code,      \* run_pipeline: what main() returned, -1 before it returns
    printed         \* what has been printed, line by line

allVars == <<refs, text_files, vocab, desc_map, ocr_summary, fidx, rows, report, out, pc, error,
             caller, doc, file_name, content, case_number, summary_row, warnings, lines, parsed,
             row_i, passA_rows, passB_ran, i, current_date, pending, seq, current_desc,
             desc_bound, returned, arg_desc, arg_map, result, data_dir, start_dir, table,
             killed, ran, exit_code, printed>>
vars == allVars

inputVars == <<refs, text_files, vocab, desc_map, ocr_summary, caller, arg_desc, arg_map, result>>
allRunVars == <<fidx, rows, report, out, returned>>
fileVars == <<doc, file_name, content, case_number, summary_row, warnings>>
passAVars == <<lines, row_i, passA_rows, passB_ran>>
passBVars == <<i, current_date, pending, seq, current_desc, desc_bound>>
pipelineVars == <<data_dir, start_dir, table, killed, ran, exit_code, printed>>

(***************************************************************************)
(* Records                                                                 *)
(***************************************************************************)
\* Path(file_name).stem
Stem(name) ==
    LET dots == {p \in 2..Len(name) : Ch(name, p) = "."}
    IN IF dots = {} THEN name ELSE SubSeq(name, 1, MaxOf(dots) - 1)

ParsedDoc(fname, event_id, source_view, case_no, filed_date, document_type, petitioner, respondent, guardian, event_code, event_label, judge, low_conf, notes) ==
    [file_name |-> fname,
     event_id |-> event_id,
     document_id |-> Stem(fname) \o ".pdf",
     source_view |-> source_view,
     case_number |-> case_no,
     filed_date |-> filed_date,
     document_type |-> document_type,
     party_petitioner |-> petitioner,
     party_respondent |-> respondent,
     party_guardian |-> guardian,
     event_type_code |-> event_code,
     event_type_label |-> event_label,
     judge |-> judge,
     low_confidence |-> low_conf,
     notes |-> JoinWith(notes, "; ")]

\* ocr_summary.get(f"{path.stem}.pdf", {}).get("low_confidence") or ""
SummaryRowOf(summary, fname) ==
    LET key == Stem(fname) \o ".pdf"
        K == {j \in 1..Len(summary) : strip(summary[j][1]) = key}
    IN IF K = {} THEN "" ELSE summary[MaxOf(K)][2]

low_conf_summary == lower(summary_row) = "yes"

(***************************************************************************)
(* Input documents.  A document is composed line by line; a line is either *)
(* a docket row (date, description, number, with some spacing) or free     *)
(* text.  The program only ever sees the rendered text.                    *)
(***************************************************************************)
RECURSIVE Blanks(_)
Blanks(n) == IF n <= 0 THEN "" ELSE " " \o Blanks(n - 1)

TextLine(t) == [kind |-> "text", text |-> t, date |-> "", desc |-> "", no |-> ""]
RowLine(date, desc, no, lead, gap1, gap2) ==
    [kind |-> "row",
     text |-> Blanks(lead) \o date \o Blanks(gap1) \o desc \o Blanks(gap2) \o no,
     date |-> date, desc |-> desc, no |-> no]

RowDates == <<"01/06/2025", "01/08/2025", "02/10/2025">>
RowDescs == <<"PETITION GUARDIANSHIP", "NOTICE OF HEARING", "ORDER APPOINTING", "Petition",
              "PROOF OF SERVICE FORM 12">>
\* the j-th row of a docket: number j, spacing varying from row to row
Row(j) ==
    RowLine(RowDates[((j - 1) % Len(RowDates)) + 1], RowDescs[((j - 1) % Len(RowDescs)) + 1],
            ToString(j), 2 * (j % 2), 1 + (j % 3), 1 + ((j + 1) % 3))
Rows(n) == [j \in 1..n |-> Row(j)]

ChunkNames == {"evdate", "evdate2", "descP", "descN", "evno", "evnoBare", "rowEN", "header"}
Chunk(c) ==
    CASE c = "evdate" -> <<TextLine("Event Date"), TextLine("03/01/2025")>>
      [] c = "evdate2" -> <<TextLine("Event Date:"), TextLine(""), TextLine("  2025-03-09")>>
      [] c = "descP" -> <<TextLine("Description"), TextLine("Petition for"), TextLine(" Guardianship")>>
      [] c = "descN" -> <<TextLine("Description"), TextLine("Notice of Hearing"),
                          TextLine("Comment"), TextLine("served by mail")>>
      [] c = "evno" -> <<TextLine("Event No."), TextLine("12")>>
      [] c = "evnoBare" -> <<TextLine("Event No"), TextLine("")>>
      [] c = "rowEN" -> <<RowLine("03/04/2025", "EVENT NOTICE", "7", 0, 2, 2)>>
      [] c = "header" -> <<TextLine("Event Date  Description  Event No")>>
      [] c = "descB" -> <<TextLine("Description"), TextLine("Order"), TextLine(""),
                          TextLine("appointing")>>
      [] c = "evdateIn" -> <<TextLine("Event Date: 03/05/2025"), TextLine("Party/Count")>>
      [] c = "descS" -> <<TextLine("Description"), TextLine("NA")>>
      [] c = "rowShort" -> <<RowLine("01/06/2025", "OK", "8", 0, 2, 2)>>
      [] c = "rowBlank" -> <<RowLine("01/08/2025", "", "9", 0, 2, 2)>>

RECURSIVE Flatten(_)
Flatten(ss) == IF Len(ss) = 0 THEN <<>> ELSE ss[1] \o Flatten(Tail(ss))
Chunks(cs) == Flatten([k \in 1..Len(cs) |-> Chunk(cs[k])])

SeqsUpTo(S, n) == UNION {[1..k -> S] : k \in 0..n}

Render(d) == JoinLines([k \in 1..Len(d) |-> d[k].text])

\* dockets handed to parse_events_table directly
GateTails == {<<>>, <<"evdate", "descP", "evno">>, <<"evdate", "descP", "evnoBare">>}
\* event blocks whose description holds a blank line
BlankTails == {<<"evdate", "descB", "evno">>, <<"descB", "evdate", "evno">>}
\* a date on the label line itself, short and blank descriptions
ExtraTails ==
    {<<"evdate", "evdateIn">>, <<"evdateIn", "descP", "evno">>, <<"rowShort", "rowBlank">>,
     <<"evdate", "descS", "evno", "evno">>}
ExtraChunks == {"descB", "evdateIn", "descS", "rowShort", "rowBlank"}
TableDocs ==
    {Rows(n) \o Chunks(cs) : n \in {0, 1}, cs \in SeqsUpTo(ChunkNames, MaxChunks)}
    \cup {Rows(n) \o Chunks(t) : n \in {PassBLimit - 1, PassBLimit}, t \in GateTails}
    \cup {Chunks(t) : t \in BlankTails \cup ExtraTails}

\* files of the input directory
PlainHead == <<TextLine("STATE OF MICHIGAN PROBATE COURT"),
               TextLine("Case No. 22-GA-1234"),
               TextLine("PETITION FOR APPOINTMENT OF GUARDIAN filed 2025-02-14"),
               TextLine("Petitioner: Jane Doe"),
               TextLine("Judge: Smith")>>
PlainShort == <<TextLine("Letters of authority")>>
EventsHead == <<TextLine("Case ID 2025-000042-GA"), TextLine("Register of Actions - Events")>>
FileTails == {<<>>, <<"evdate2", "descP", "evno">>, <<"evno">>}
FileDocs ==
    {PlainHead, PlainShort, PlainHead \o Rows(MinTableEvents), EventsHead \o Rows(PassBLimit)}
    \cup {EventsHead \o Rows(n) \o Chunks(t) :
            n \in {0, MinTableEvents - 1, MinTableEvents}, t \in FileTails}

\* one file handed to parse_file_with_report: a text without the word "events",
\* with or without a case number, a date and a document type keyword, short or
\* long, and texts of one character below the short-text length, of exactly
\* that length, and of that length with the newline that ends the last line
RECURSIVE Filler(_)
Filler(n) == IF n <= 0 THEN "" ELSE "x" \o Filler(n - 1)
Optional(present, t) == IF present THEN <<TextLine(t)>> ELSE <<>>
SingleDocs ==
    {Optional(c, "Case No. 22-GA-1234") \o Optional(f, "filed 2025-02-14")
       \o Optional(t, "Letters of guardianship") \o Optional(long, Filler(ShortTextLen + 20)) :
         c \in BOOLEAN, f \in BOOLEAN, t \in BOOLEAN, long \in BOOLEAN}
    \cup {<<TextLine(Filler(ShortTextLen - 1))>>, <<TextLine(Filler(ShortTextLen))>>,
          <<TextLine(Filler(ShortTextLen - 1)), TextLine("")>>}

\* reference files
MissingFile == [exists |-> FALSE, data |-> <<>>]
EventsCsv == [exists |-> TRUE,
              data |-> << <<"PGII", "Petition for guardianship">>, <<"NOH", "Notice of hearing">>,
                          <<"", "row without code">>, <<"LET", " Letters ">> >>]
EventTypeMapJson == [exists |-> TRUE,
                     data |-> << <<"hearing", "xhrg">>, <<"petition", "xpet">>,
                                 <<"appoint", "">> >>]
OcrSummaryCsv == [exists |-> TRUE, data |-> << <<"doc1.pdf", "yes">>, <<"doc2.pdf", "no">> >>]
AllPresent == [events |-> EventsCsv, map |-> EventTypeMapJson, ocr |-> OcrSummaryCsv]
AllMissing == [events |-> MissingFile, map |-> MissingFile, ocr |-> MissingFile]
RefSets == {AllMissing, AllPresent}

\* descriptions handed to map_desc_to_code: words, each with the keywords (of
\* the chain and of the override maps below) that its letters spell out
Word(w, kws) == [w |-> w, kws |-> kws]
DescWords == {Word("Petition", {"PETITION"}), Word("NOTICE", {"NOTICE"}),
              Word("proof", {"PROOF"}), Word("Reorder", {"ORDER"}),
              Word("Letters", {"LETTER"}), Word("Objection", {"OBJECTION"}),
              Word("to", {"TO"}), Word("Hearing", {"HEARING"}),
              Word("Noticed-Orders", {"NOTICE", "ORDER"})}
Descs == SeqsUpTo(DescWords, MaxWords)
RenderDesc(ws) == JoinWith([k \in 1..Len(ws) |-> ws[k].w], " ")
DynamicMaps == {<<>>, << <<"HEARING", "XHRG">> >>,
                << <<"TO", "XTO">>, <<"PETITION", "XPET">> >>}

\* texts handed to detect_document_type: phrases, each with the keywords of
\* DOC_TYPE_KEYWORDS that its letters spell out
DocPhrases == {Word("PETITION for", {"petition"}), Word("Order Appointing", {"order appoint"}),
               Word("letters", {"letters"}), Word("Hearing Notice", {"hearing notice"}),
               Word("Notice of Hearing", {"notice of hearing"}),
               Word("Proof of Service", {"proof of service"}),
               Word("Affidavit", {"affidavit"}), Word("Objection", {"objection"}),
               Word("Bondholder", {"bond"}), Word("Re-evaluation", {"evaluation"}),
               Word("filed on", {})}
DocTexts == SeqsUpTo(DocPhrases, MaxWords)

FileNameOf(k) == "doc" \o ToString(k) \o ".txt"
\* the file names a docket is parsed under: the first is flagged in the OCR
\* summary, the second is not
TableFileNames(d) ==
    IF d \in {Chunks(t) : t \in ExtraTails} THEN {FileNameOf(1), FileNameOf(2)}
    ELSE {FileNameOf(1)}

\* lines 403-406
CaseNumberOf(text) ==
    LET found == first_match(CASE_PATTERNS, text)
    IN RemoveSpaces(IF found = "" THEN extract_case_from_table_header(text) ELSE found)

\* line 228: [ln.rstrip() for ln in content.splitlines()]
LinesOf(text) == LET ls == splitlines(text) IN [k \in 1..Len(ls) |-> rstrip(ls[k])]

\* line 412: "events" in content.lower()
TableAttempted(text) == Contains(lower(text), "events")

\* what parse_file_with_report computes from the text of a file alone
\* (lines 401-457), worked out once for each document the files can hold
Facts(d) ==
    LET text == Render(d)
    IN [doc |-> d,
        content |-> text,
        case_number |-> CaseNumberOf(text),
        attempted |-> TableAttempted(text),
        lines |-> LinesOf(text),
        filed_date |-> first_match(DATE_PATTERNS, text),
        document_type |-> detect_document_type(text),
        petitioner |-> detect_party(text, "Petitioner"),
        respondent |-> detect_party(text, "Respondent"),
        guardian |-> detect_party(text, "Guardian"),
        judge |-> detect_judge(text),
        text_is_short |-> Len(strip(text)) < ShortTextLen]
FileFacts == {Facts(d) : d \in FileDocs}
SingleFacts == {Facts(d) : d \in SingleDocs}
FactsOf(d) == CHOOSE f \in (IF d \in SingleDocs THEN SingleFacts ELSE FileFacts) : f.doc = d

(***************************************************************************)
(* Initial states                                                          *)
(***************************************************************************)
NoFileState ==
    /\ doc = <<>> /\ file_name = "" /\ content = "" /\ case_number = ""
    /\ summary_row = "" /\ warnings = <<>>
\* run_pipeline and verify are not running
NoPipeline ==
    /\ data_dir = {} /\ start_dir = {} /\ table = <<>> /\ killed = 0
    /\ ran = <<>> /\ exit_code = -1 /\ printed = <<>>
NoTableState ==
    /\ lines = <<>> /\ parsed = <<>> /\ row_i = 1 /\ passA_rows = <<>> /\ passB_ran = FALSE
    /\ i = 1 /\ current_date = "" /\ pending = <<>> /\ seq = 1
    /\ current_desc = "" /\ desc_bound = FALSE

\* python parse_court_docs.py: main() is about to call parse_all
Init ==
    /\ NoPipeline
    /\ refs \in RefSets
    /\ \E n \in 0..MaxFiles : text_files = [k \in 1..n |-> FileNameOf(k)]
    /\ vocab = <<>> /\ desc_map = <<>> /\ ocr_summary = <<>>
    /\ fidx = 0 /\ rows = <<>> /\ report = <<>>
    /\ out = [written |-> FALSE, csv |-> <<>>, report |-> <<>>]
    /\ pc = "main" /\ error = "" /\ caller = "parse_file_with_report"
    /\ returned = <<>>
    /\ arg_desc = <<>> /\ arg_map = <<>> /\ result = ""
    /\ NoFileState /\ NoTableState

\* parse_events_table(sample, "2025-TEST", vocab, summary_row, file_name, desc_map)
\* called directly, as the unit tests do
InitTable ==
    /\ NoPipeline
    /\ refs = AllPresent
    /\ text_files = <<>>
    /\ vocab = load_event_vocab(refs.events)
    /\ desc_map = load_event_type_map(refs.map)
    /\ ocr_summary = load_ocr_summary(refs.ocr)
    /\ fidx = 0 /\ rows = <<>> /\ report = <<>>
    /\ out = [written |-> FALSE, csv |-> <<>>, report |-> <<>>]
    /\ pc = "passA" /\ error = "" /\ caller = "direct"
    /\ returned = <<>>
    /\ arg_desc = <<>> /\ arg_map = <<>> /\ result = ""
    /\ doc \in TableDocs
    /\ file_name \in TableFileNames(doc)
    /\ content = Render(doc)
    /\ case_number = "2025-TEST"
    /\ summary_row = SummaryRowOf(ocr_summary, file_name)
    /\ warnings = <<>>
    /\ lines = LinesOf(content)
    /\ parsed = <<>> /\ row_i = 1 /\ passA_rows = <<>> /\ passB_ran = FALSE
    /\ i = 1 /\ current_date = "" /\ pending = <<>> /\ seq = 1
    /\ current_desc = "" /\ desc_bound = FALSE

\* map_desc_to_code(desc, dynamic_map) called directly, as the unit tests do
InitMap ==
    /\ NoPipeline
    /\ refs = AllMissing
    /\ text_files = <<>>
    /\ vocab = <<>> /\ desc_map = <<>> /\ ocr_summary = <<>>
    /\ fidx = 0 /\ rows = <<>> /\ report = <<>>
    /\ out = [written |-> FALSE, csv |-> <<>>, report |-> <<>>]
    /\ pc = "map_call" /\ error = "" /\ caller = "direct"
    /\ returned = <<>>
    /\ arg_desc \in Descs /\ arg_map \in DynamicMaps /\ result = ""
    /\ NoFileState /\ NoTableState

\* detect_document_type(text) called directly
InitDetect ==
    /\ NoPipeline
    /\ refs = AllMissing
    /\ text_files = <<>>
    /\ vocab = <<>> /\ desc_map = <<>> /\ ocr_summary = <<>>
    /\ fidx = 0 /\ rows = <<>> /\ report = <<>>
    /\ out = [written |-> FALSE, csv |-> <<>>, report |-> <<>>]
    /\ pc = "detect_call" /\ error = "" /\ caller = "direct"
    /\ returned = <<>>
    /\ arg_desc \in DocTexts /\ arg_map = <<>> /\ result = ""
    /\ NoFileState /\ NoTableState

\* parse_file_with_report(path, vocab, ocr_summary, desc_map) called on one file
InitFile ==
    /\ NoPipeline
    /\ refs \in RefSets
    /\ \E k \in 1..2 : text_files = <<FileNameOf(k)>>
    /\ vocab = load_event_vocab(refs.events)
    /\ desc_map = load_event_type_map(refs.map)
    /\ ocr_summary = load_ocr_summary(refs.ocr)
    /\ fidx = 1 /\ rows = <<>> /\ report = <<>>
    /\ out = [written |-> FALSE, csv |-> <<>>, report |-> <<>>]
    /\ pc = "next_file" /\ error = "" /\ caller = "parse_file_with_report"
    /\ returned = <<>>
    /\ arg_desc = <<>> /\ arg_map = <<>> /\ result = ""
    /\ NoFileState /\ NoTableState

(***************************************************************************)
(* parse_all: start-up                                                     *)
(***************************************************************************)
ResetTable ==
    /\ parsed' = <<>> /\ row_i' = 1 /\ passA_rows' = <<>> /\ passB_ran' = FALSE
    /\ i' = 1 /\ current_date' = "" /\ pending' = <<>> /\ seq' = 1
    /\ current_desc' = "" /\ desc_bound' = FALSE

\* lines 475-484 with at least one text file
ParseAllStart ==
    /\ UNCHANGED pipelineVars
    /\ pc = "main"
    /\ text_files # <<>>
    /\ vocab' = load_event_vocab(refs.events)
    /\ desc_map' = load_event_type_map(refs.map)
    /\ ocr_summary' = load_ocr_summary(refs.ocr)
    /\ fidx' = 1
    /\ pc' = "next_file"
    /\ UNCHANGED <<refs, text_files, rows, report, out, error, caller, returned>>
    /\ UNCHANGED <<arg_desc, arg_map, result>>
    /\ UNCHANGED fileVars /\ UNCHANGED <<lines, parsed>> /\ UNCHANGED <<row_i, passA_rows, passB_ran>>
    /\ UNCHANGED passBVars

\* parse_all writing an empty CSV and an empty report when there is no text file
ParseAllNoFiles_writes_empty ==
    /\ UNCHANGED pipelineVars
    /\ pc = "main"
    /\ text_files = <<>>
    /\ vocab' = load_event_vocab(refs.events)
    /\ desc_map' = load_event_type_map(refs.map)
    /\ ocr_summary' = load_ocr_summary(refs.ocr)
    /\ pc' = "done"
    /\ out' = [written |-> TRUE, csv |-> <<>>, report |-> <<>>]
    /\ UNCHANGED <<refs, text_files, fidx, rows, report, error, caller, returned>>
    /\ UNCHANGED <<arg_desc, arg_map, result>>
    /\ UNCHANGED fileVars /\ UNCHANGED <<lines, parsed>> /\ UNCHANGED <<row_i, passA_rows, passB_ran>>
    /\ UNCHANGED passBVars

\* lines 479-481: raise SystemExit("No text files found ...")
ParseAllNoFiles ==
    /\ UNCHANGED pipelineVars
    /\ pc = "main"
    /\ text_files = <<>>
    /\ vocab' = load_event_vocab(refs.events)
    /\ desc_map' = load_event_type_map(refs.map)
    /\ ocr_summary' = load_ocr_summary(refs.ocr)
    /\ pc' = "raised"
    /\ error' = "SystemExit"
    /\ UNCHANGED <<refs, text_files, fidx, rows, report, out, caller, returned>>
    /\ UNCHANGED <<arg_desc, arg_map, result>>
    /\ UNCHANGED fileVars /\ UNCHANGED <<lines, parsed>> /\ UNCHANGED <<row_i, passA_rows, passB_ran>>
    /\ UNCHANGED passBVars

(***************************************************************************)
(* parse_file_with_report: reading the file (lines 401-413)                *)
(***************************************************************************)
ReadFile ==
    /\ UNCHANGED pipelineVars
    /\ pc = "next_file"
    /\ fidx <= Len(text_files)
    /\ \E f \in FileFacts :
        /\ doc' = f.doc
        /\ content' = f.content
        /\ case_number' = f.case_number
        /\ IF f.attempted
           THEN /\ lines' = f.lines
                /\ pc' = "passA"
           ELSE /\ lines' = <<>>
                /\ pc' = "fallback"
    /\ file_name' = text_files[fidx]
    /\ summary_row' = SummaryRowOf(ocr_summary, file_name')
    /\ warnings' = <<>>
    /\ ResetTable
    /\ UNCHANGED <<refs, text_files, vocab, desc_map, ocr_summary, fidx, rows, report, out,
                   error, caller, returned, arg_desc, arg_map, result>>

\* lines 401-413 for the one file of a direct call
ReadSingle ==
    /\ UNCHANGED pipelineVars
    /\ pc = "next_file"
    /\ fidx <= Len(text_files)
    /\ \E f \in SingleFacts :
        /\ doc' = f.doc
        /\ content' = f.content
        /\ case_number' = f.case_number
        /\ IF f.attempted
           THEN /\ lines' = f.lines
                /\ pc' = "passA"
           ELSE /\ lines' = <<>>
                /\ pc' = "fallback"
    /\ file_name' = text_files[fidx]
    /\ summary_row' = SummaryRowOf(ocr_summary, file_name')
    /\ warnings' = <<>>
    /\ ResetTable
    /\ UNCHANGED <<refs, text_files, vocab, desc_map, ocr_summary, fidx, rows, report, out,
                   error, caller, returned, arg_desc, arg_map, result>>

\* path.read_text raises OSError: nothing in parse_all catches it
ReadFileFails ==
    /\ UNCHANGED pipelineVars
    /\ pc = "next_file"
    /\ fidx <= Len(text_files)
    /\ pc' = "raised"
    /\ error' = "OSError"
    /\ UNCHANGED <<refs, text_files, vocab, desc_map, ocr_summary, fidx, rows, report, out,
                   caller, returned, arg_desc, arg_map, result>>
    /\ UNCHANGED fileVars /\ UNCHANGED <<lines, parsed>> /\ UNCHANGED <<row_i, passA_rows, passB_ran>>
    /\ UNCHANGED passBVars

(***************************************************************************)
(* parse_events_table, Pass A (lines 232-267)                              *)
(***************************************************************************)
LowConf(short) == IF low_conf_summary \/ short THEN "yes" ELSE "no"

\* a Pass A record with a source_view of its own
RowRecord_own_view(line, n_parsed) ==
    LET g == RowGroups(line, re_match(row_pattern, line))
        stripped == strip(g.desc)
        document_type == IF stripped # "" THEN stripped ELSE "Unknown"
        event_code == event_code_for(document_type, desc_map)
        event_label == DictGet(vocab, event_code, document_type)
        text_is_short == Len(document_type) < ShortDescLen
        notes == <<"parsed from events table (row)">>
                 \o (IF text_is_short THEN <<"description short">> ELSE <<>>)
        event_id == IF g.event_no # "" THEN g.event_no
                    ELSE case_number \o "-" \o g.filed_date \o "-" \o Pad2(n_parsed + 1)
    IN ParsedDoc(file_name, event_id, "MiCourt_EventRow", case_number, g.filed_date,
                 document_type, "", "", "", event_code, event_label, "",
                 LowConf(text_is_short), notes)

RowRecord(line, n_parsed) ==
    LET g == RowGroups(line, re_match(row_pattern, line))
        stripped == strip(g.desc)
        document_type == IF stripped # "" THEN stripped ELSE "Unknown"
        event_code == event_code_for(document_type, desc_map)
        event_label == DictGet(vocab, event_code, document_type)
        text_is_short == Len(document_type) < ShortDescLen
        notes == <<"parsed from events table (row)">>
                 \o (IF text_is_short THEN <<"description short">> ELSE <<>>)
        event_id == IF g.event_no # "" THEN g.event_no
                    ELSE case_number \o "-" \o g.filed_date \o "-" \o Pad2(n_parsed + 1)
    IN ParsedDoc(file_name, event_id, "MiCourt_EventList", case_number, g.filed_date,
                 document_type, "", "", "", event_code, event_label, "",
                 LowConf(text_is_short), notes)

PassAUnchanged ==
    /\ UNCHANGED pipelineVars
    /\ UNCHANGED inputVars /\ UNCHANGED allRunVars /\ UNCHANGED fileVars
    /\ UNCHANGED <<lines, passA_rows, passB_ran, error, pc>>
    /\ UNCHANGED passBVars

PassARow ==
    /\ pc = "passA"
    /\ row_i <= Len(lines)
    /\ re_match(row_pattern, lines[row_i]) # NoMatch
    /\ parsed' = Append(parsed, RowRecord(lines[row_i], Len(parsed)))
    /\ row_i' = row_i + 1
    /\ PassAUnchanged

PassASkip ==
    /\ pc = "passA"
    /\ row_i <= Len(lines)
    /\ re_match(row_pattern, lines[row_i]) = NoMatch
    /\ row_i' = row_i + 1
    /\ UNCHANGED parsed
    /\ PassAUnchanged

\* the gate with the boundary on the wrong side: 30 rows still let Pass B run
PassBGate_inclusive(n_parsed) == n_parsed <= PassBLimit

\* line 270: if len(parsed) < 30
PassBGate(n_parsed) == n_parsed < PassBLimit

\* a Pass B whose running number starts at one whatever Pass A emitted
PassBStart_seq_from_one ==
    /\ UNCHANGED pipelineVars
    /\ pc = "passA"
    /\ row_i > Len(lines)
    /\ PassBGate(Len(parsed))
    /\ passA_rows' = parsed
    /\ passB_ran' = TRUE
    /\ current_date' = ""
    /\ pending' = <<>>
    /\ seq' = 1
    /\ i' = 1
    /\ pc' = "passB"
    /\ UNCHANGED inputVars /\ UNCHANGED allRunVars /\ UNCHANGED fileVars
    /\ UNCHANGED <<lines, parsed, row_i, error, current_desc, desc_bound>>

PassBStart ==
    /\ UNCHANGED pipelineVars
    /\ pc = "passA"
    /\ row_i > Len(lines)
    /\ PassBGate(Len(parsed))
    /\ passA_rows' = parsed
    /\ passB_ran' = TRUE
    /\ current_date' = ""
    /\ pending' = <<>>
    /\ seq' = Len(parsed) + 1
    /\ i' = 1
    /\ pc' = "passB"
    /\ UNCHANGED inputVars /\ UNCHANGED allRunVars /\ UNCHANGED fileVars
    /\ UNCHANGED <<lines, parsed, row_i, error, current_desc, desc_bound>>

PassBSkipped ==
    /\ UNCHANGED pipelineVars
    /\ pc = "passA"
    /\ row_i > Len(lines)
    /\ ~PassBGate(Len(parsed))
    /\ passA_rows' = parsed
    /\ pc' = "table_return"
    /\ UNCHANGED inputVars /\ UNCHANGED allRunVars /\ UNCHANGED fileVars
    /\ UNCHANGED <<lines, parsed, row_i, passB_ran, error>>
    /\ UNCHANGED passBVars

(***************************************************************************)
(* parse_events_table, Pass B (lines 270-379)                              *)
(***************************************************************************)
label_stops == <<"event date", "description", "party/count", "event no", "event no.", "comment",
                 "judge", "attorney", "next hearing", "program/results", "amount", "disposition",
                 "category action", "party action">>

StartsWithAny(s, prefixes) == \E k \in 1..Len(prefixes) : StartsWith(s, prefixes[k])

\* next_nonempty(start, arr), 1-based: <<j, arr[j].strip()>> or <<len + 1, "">>
RECURSIVE next_nonempty(_, _)
next_nonempty(start, arr) ==
    IF start > Len(arr) THEN <<start, "">>
    ELSE LET v == strip(arr[start])
         IN IF v # "" THEN <<start, v>> ELSE next_nonempty(start + 1, arr)

\* first_match(DATE_PATTERNS, t), worked out once for each stripped line the
\* dockets can hold
LineTexts ==
    UNION {{strip(Chunk(c)[k].text) : k \in 1..Len(Chunk(c))} : c \in ChunkNames \cup ExtraChunks}
    \cup {strip(Row(j).text) : j \in 1..PassBLimit}
    \cup {strip(EventsHead[k].text) : k \in 1..Len(EventsHead)}
    \cup {strip(PlainHead[k].text) : k \in 1..Len(PlainHead)} \cup {""}
DateTable == {[text |-> t, date |-> first_match(DATE_PATTERNS, t)] : t \in LineTexts}
DateIn(t) == (CHOOSE e \in DateTable : e.text = t).date

\* which branch of the while loop body takes the line at position i
LineKind(raw, cur_date) ==
    LET line == strip(raw)
        low == lower(line)
    IN IF line = "" THEN "blank"
       ELSE IF StartsWith(low, "event date") THEN "event_date"
       ELSE IF cur_date = "" /\ DateIn(line) # "" THEN "bare_date"
       ELSE IF StartsWith(low, "description") THEN "description"
       ELSE IF Contains(low, "event no") THEN "event_no"
       ELSE "other"

AtLine(kind) ==
    /\ pc = "passB"
    /\ i <= Len(lines)
    /\ LineKind(lines[i], current_date) = kind

PassBUnchanged ==
    /\ UNCHANGED pipelineVars
    /\ UNCHANGED inputVars /\ UNCHANGED allRunVars /\ UNCHANGED fileVars
    /\ UNCHANGED passAVars

\* lines 331-333
PassBBlank ==
    /\ AtLine("blank")
    /\ i' = i + 1
    /\ UNCHANGED <<parsed, current_date, pending, seq, current_desc, desc_bound, pc, error>>
    /\ PassBUnchanged

\* an 'event date' branch that reads a date from the next non-blank line only
PassBEventDate_next_line_only ==
    /\ AtLine("event_date")
    /\ LET val == next_nonempty(i + 1, lines)[2]
           date_val == DateIn(val)
       IN current_date' = IF date_val # "" THEN date_val ELSE current_date
    /\ i' = i + 1
    /\ UNCHANGED <<parsed, pending, seq, current_desc, desc_bound, pc, error>>
    /\ PassBUnchanged

\* lines 335-341
PassBEventDate ==
    /\ AtLine("event_date")
    /\ LET val == next_nonempty(i + 1, lines)[2]
           in_val == DateIn(val)
           date_val == IF in_val # "" THEN in_val
                       ELSE DateIn(strip(lines[i]))
       IN current_date' = IF date_val # "" THEN date_val ELSE current_date
    /\ i' = i + 1
    /\ UNCHANGED <<parsed, pending, seq, current_desc, desc_bound, pc, error>>
    /\ PassBUnchanged

\* lines 344-349
PassBBareDate ==
    /\ AtLine("bare_date")
    /\ current_date' = DateIn(strip(lines[i]))
    /\ i' = i + 1
    /\ UNCHANGED <<parsed, pending, seq, current_desc, desc_bound, pc, error>>
    /\ PassBUnchanged

\* a collection of description lines that goes on over blank lines
RECURSIVE DescStop_over_blanks(_, _)
DescStop_over_blanks(j, arr) ==
    IF j > Len(arr) THEN j
    ELSE LET nxt == strip(arr[j])
         IN IF \/ StartsWithAny(lower(nxt), label_stops)
               \/ DateIn(nxt) # ""
            THEN j
            ELSE DescStop_over_blanks(j + 1, arr)

\* lines 353-360: the position at which the collection of description lines ends
RECURSIVE DescStop(_, _)
DescStop(j, arr) ==
    IF j > Len(arr) THEN j
    ELSE LET nxt == strip(arr[j])
         IN IF \/ nxt = ""
               \/ StartsWithAny(lower(nxt), label_stops)
               \/ DateIn(nxt) # ""
            THEN j
            ELSE DescStop(j + 1, arr)

\* lines 351-365
PassBDescription ==
    /\ AtLine("description")
    /\ LET j == DescStop(i + 1, lines)
           desc_parts == [k \in 1..(j - i - 1) |-> strip(lines[i + k])]
           joined == strip(JoinWith(desc_parts, " "))
       IN /\ current_desc' = joined
          /\ desc_bound' = TRUE
          /\ pending' = IF joined # "" THEN Append(pending, <<current_date, joined>>) ELSE pending
          /\ i' = j
    /\ UNCHANGED <<parsed, current_date, seq, pc, error>>
    /\ PassBUnchanged

\* emit_event with a blank label for a code the vocabulary does not hold
EmitRecord_blank_label(desc_text, event_no_text, filed_date_text, sq) ==
    LET stripped == strip(desc_text)
        desc_clean == IF stripped # "" THEN stripped ELSE "Unknown"
        digits == DigitsOnly(event_no_text)
        event_no_clean == IF digits # "" THEN digits ELSE Pad2(sq)
        event_code == event_code_for(desc_clean, desc_map)
        text_is_short == Len(desc_clean) < ShortDescLen
        notes == <<"parsed from events table (block)">>
                 \o (IF text_is_short THEN <<"description short">> ELSE <<>>)
    IN ParsedDoc(file_name, case_number \o "-" \o filed_date_text \o "-" \o event_no_clean,
                 "MiCourt_EventList", case_number, filed_date_text, desc_clean, "", "", "",
                 event_code, DictGet(vocab, event_code, ""), "", LowConf(text_is_short), notes)

\* emit_event (lines 291-324): the record appended when filed_date_text is not empty
EmitRecord(desc_text, event_no_text, filed_date_text, sq) ==
    LET stripped == strip(desc_text)
        desc_clean == IF stripped # "" THEN stripped ELSE "Unknown"
        digits == DigitsOnly(event_no_text)
        event_no_clean == IF digits # "" THEN digits ELSE Pad2(sq)
        event_code == event_code_for(desc_clean, desc_map)
        event_label == DictGet(vocab, event_code, desc_clean)
        text_is_short == Len(desc_clean) < ShortDescLen
        notes == <<"parsed from events table (block)">>
                 \o (IF text_is_short THEN <<"description short">> ELSE <<>>)
    IN ParsedDoc(file_name, case_number \o "-" \o filed_date_text \o "-" \o event_no_clean,
                 "MiCourt_EventList", case_number, filed_date_text, desc_clean, "", "", "",
                 event_code, event_label, "", LowConf(text_is_short), notes)

\* line 373 reads current_desc: it must have been assigned
CanReadCurrentDesc == pending # <<>> \/ desc_bound

\* the 'event no' branch taking the newest queued pair
PassBEventNo_newest_first ==
    /\ AtLine("event_no")
    /\ CanReadCurrentDesc
    /\ LET current_no == strip(next_nonempty(i + 1, lines)[2])
           pair == IF pending # <<>> THEN pending[Len(pending)] ELSE <<current_date, current_desc>>
           filed == IF pair[1] # "" THEN pair[1] ELSE current_date
       IN /\ pending' = IF pending # <<>> THEN SubSeq(pending, 1, Len(pending) - 1) ELSE pending
          /\ IF filed = ""
             THEN UNCHANGED <<parsed, seq>>
             ELSE /\ parsed' = Append(parsed, EmitRecord(pair[2], current_no, filed, seq))
                  /\ seq' = seq + 1
    /\ current_desc' = ""
    /\ desc_bound' = TRUE
    /\ i' = i + 1
    /\ UNCHANGED <<current_date, pc, error>>
    /\ PassBUnchanged

\* an 'event no' branch that keeps the current description after the emit
PassBEventNo_keeps_desc ==
    /\ AtLine("event_no")
    /\ CanReadCurrentDesc
    /\ LET current_no == strip(next_nonempty(i + 1, lines)[2])
           pair == IF pending # <<>> THEN pending[1] ELSE <<current_date, current_desc>>
           filed == IF pair[1] # "" THEN pair[1] ELSE current_date
       IN /\ pending' = IF pending # <<>> THEN Tail(pending) ELSE pending
          /\ IF filed = ""
             THEN UNCHANGED <<parsed, seq>>
             ELSE /\ parsed' = Append(parsed, EmitRecord(pair[2], current_no, filed, seq))
                  /\ seq' = seq + 1
    /\ desc_bound' = TRUE
    /\ i' = i + 1
    /\ UNCHANGED <<current_desc, current_date, pc, error>>
    /\ PassBUnchanged

\* lines 367-377
PassBEventNo ==
    /\ AtLine("event_no")
    /\ CanReadCurrentDesc
    /\ LET current_no == strip(next_nonempty(i + 1, lines)[2])
           pair == IF pending # <<>> THEN pending[1] ELSE <<current_date, current_desc>>
           filed == IF pair[1] # "" THEN pair[1] ELSE current_date
       IN /\ pending' = IF pending # <<>> THEN Tail(pending) ELSE pending
          /\ IF filed = ""
             THEN UNCHANGED <<parsed, seq>>
             ELSE /\ parsed' = Append(parsed, EmitRecord(pair[2], current_no, filed, seq))
                  /\ seq' = seq + 1
    /\ current_desc' = ""
    /\ desc_bound' = TRUE
    /\ i' = i + 1
    /\ UNCHANGED <<current_date, pc, error>>
    /\ PassBUnchanged

\* line 373 with an empty queue and current_desc never assigned: UnboundLocalError
PassBEventNoRaises ==
    /\ AtLine("event_no")
    /\ ~CanReadCurrentDesc
    /\ pc' = "raised"
    /\ error' = "UnboundLocalError"
    /\ UNCHANGED <<parsed, i, current_date, pending, seq, current_desc, desc_bound>>
    /\ PassBUnchanged

\* a skipped line that empties the queue
PassBOther_drops_queue ==
    /\ AtLine("other")
    /\ i' = i + 1
    /\ pending' = <<>>
    /\ UNCHANGED <<parsed, current_date, seq, current_desc, desc_bound, pc, error>>
    /\ PassBUnchanged

\* line 379
PassBOther ==
    /\ AtLine("other")
    /\ i' = i + 1
    /\ UNCHANGED <<parsed, current_date, pending, seq, current_desc, desc_bound, pc, error>>
    /\ PassBUnchanged

\* line 327: the while loop ends
PassBEnd ==
    /\ pc = "passB"
    /\ i > Len(lines)
    /\ pc' = "table_return"
    /\ UNCHANGED <<parsed, i, current_date, pending, seq, current_desc, desc_bound, error>>
    /\ PassBUnchanged

(***************************************************************************)
(* parse_file_with_report: arbitration and the single-document extractor   *)
(***************************************************************************)
ReportEntry(strategy_used, events_found, warns) ==
    [filename |-> file_name, strategy_used |-> strategy_used,
     events_found |-> events_found, warnings |-> warns]

\* the threshold with the boundary on the wrong side: 10 records are rejected
TableAccepts_strict(table_rows) == Len(table_rows) > MinTableEvents

\* line 414: if len(table_rows) >= 10
TableAccepts(table_rows) == Len(table_rows) >= MinTableEvents

ReturnUnchanged ==
    /\ UNCHANGED inputVars /\ UNCHANGED <<fidx, rows, report, out, error>>
    /\ UNCHANGED <<doc, file_name, content, case_number, summary_row>>
    /\ UNCHANGED <<lines, parsed>> /\ UNCHANGED <<row_i, passA_rows, passB_ran>>
    /\ UNCHANGED passBVars

\* a warning that leaves the count out
RejectWarning_nocount(n) == "table strategy found too few events; using fallback"

\* line 422
RejectWarning(n) == "table strategy only found " \o ToString(n) \o " events; using fallback"

\* lines 413-421
TableAccepted ==
    /\ UNCHANGED pipelineVars
    /\ pc = "table_return"
    /\ caller = "parse_file_with_report"
    /\ TableAccepts(parsed)
    /\ returned' = Append(returned, [rows |-> parsed,
                                     entry |-> ReportEntry("table", Len(parsed), warnings),
                                     attempted |-> FactsOf(doc).attempted,
                                     table_rows |-> parsed,
                                     doc |-> doc])
    /\ pc' = "extend"
    /\ UNCHANGED warnings
    /\ ReturnUnchanged

\* line 422
TableRejected ==
    /\ UNCHANGED pipelineVars
    /\ pc = "table_return"
    /\ caller = "parse_file_with_report"
    /\ ~TableAccepts(parsed)
    /\ warnings' = Append(warnings, RejectWarning(Len(parsed)))
    /\ pc' = "fallback"
    /\ UNCHANGED returned
    /\ ReturnUnchanged

\* the direct caller receives parsed
TableReturned ==
    /\ UNCHANGED pipelineVars
    /\ pc = "table_return"
    /\ caller = "direct"
    /\ pc' = "returned"
    /\ UNCHANGED <<warnings, returned>>
    /\ ReturnUnchanged

\* the single-document record without the note on the case number
SingleRecord_no_case_note ==
    LET facts == FactsOf(doc)
        text_is_short == facts.text_is_short
        notes == (IF text_is_short THEN <<"very short text; manual check">> ELSE <<>>)
                 \o (IF low_conf_summary THEN <<"OCR low confidence">> ELSE <<>>)
    IN ParsedDoc(file_name, "", "ocr_pipeline", case_number, facts.filed_date,
                 facts.document_type, facts.petitioner, facts.respondent, facts.guardian,
                 event_code_for(facts.document_type, desc_map),
                 DictGet(vocab, event_code_for(facts.document_type, desc_map), ""),
                 facts.judge, LowConf(text_is_short), notes)

\* lines 424-464
SingleRecord ==
    LET facts == FactsOf(doc)
        filed_date == facts.filed_date
        document_type == facts.document_type
        event_code == event_code_for(document_type, desc_map)
        event_label == DictGet(vocab, event_code, "")
        text_is_short == facts.text_is_short
        notes == (IF case_number = "" THEN <<"case number not found">> ELSE <<>>)
                 \o (IF text_is_short THEN <<"very short text; manual check">> ELSE <<>>)
                 \o (IF low_conf_summary THEN <<"OCR low confidence">> ELSE <<>>)
    IN ParsedDoc(file_name, "", "ocr_pipeline", case_number, filed_date, document_type,
                 facts.petitioner, facts.respondent, facts.guardian, event_code, event_label,
                 facts.judge, LowConf(text_is_short), notes)

\* lines 424-471
Fallback ==
    /\ UNCHANGED pipelineVars
    /\ pc = "fallback"
    /\ returned' = Append(returned, [rows |-> <<SingleRecord>>,
                                     entry |-> ReportEntry("fallback", 1, warnings),
                                     attempted |-> FactsOf(doc).attempted,
                                     table_rows |-> parsed,
                                     doc |-> doc])
    /\ pc' = "extend"
    /\ UNCHANGED warnings
    /\ ReturnUnchanged

(***************************************************************************)
(* parse_all: the loop body after the call, and the outputs                *)
(***************************************************************************)
\* the records of a file put in front of the earlier files' records
ExtendRows_front(old, new) == new \o old

\* rows.extend(parsed_rows)
ExtendRows(old, new) == old \o new

\* lines 487-488
Extend ==
    /\ UNCHANGED pipelineVars
    /\ pc = "extend"
    /\ rows' = ExtendRows(rows, returned[Len(returned)].rows)
    /\ report' = Append(report, returned[Len(returned)].entry)
    /\ fidx' = fidx + 1
    /\ pc' = "next_file"
    /\ UNCHANGED inputVars /\ UNCHANGED <<out, error, returned>> /\ UNCHANGED fileVars
    /\ UNCHANGED <<lines, parsed>> /\ UNCHANGED <<row_i, passA_rows, passB_ran>>
    /\ UNCHANGED passBVars

\* lines 490-501
WriteOutputs ==
    /\ UNCHANGED pipelineVars
    /\ pc = "next_file"
    /\ fidx > Len(text_files)
    /\ out' = [written |-> TRUE, csv |-> rows, report |-> report]
    /\ pc' = "done"
    /\ UNCHANGED inputVars /\ UNCHANGED <<fidx, rows, report, error, returned>>
    /\ UNCHANGED fileVars
    /\ UNCHANGED <<lines, parsed>> /\ UNCHANGED <<row_i, passA_rows, passB_ran>>
    /\ UNCHANGED passBVars

(***************************************************************************)
(* Specifications                                                          *)
(***************************************************************************)
Next ==
    \/ ParseAllStart \/ ParseAllNoFiles \/ ReadFile \/ ReadFileFails
    \/ PassARow \/ PassASkip \/ PassBStart \/ PassBSkipped
    \/ PassBBlank \/ PassBEventDate \/ PassBBareDate \/ PassBDescription
    \/ PassBEventNo \/ PassBEventNoRaises \/ PassBOther \/ PassBEnd
    \/ TableAccepted \/ TableRejected \/ Fallback \/ Extend \/ WriteOutputs

\* a run of the parser over a directory of text files
Spec == Init /\ [][Next]_vars

NextTable ==
    \/ PassARow \/ PassASkip \/ PassBStart \/ PassBSkipped
    \/ PassBBlank \/ PassBEventDate \/ PassBBareDate \/ PassBDescription
    \/ PassBEventNo \/ PassBEventNoRaises \/ PassBOther \/ PassBEnd
    \/ TableReturned

\* a direct call of parse_events_table on one docket
SpecTable == InitTable /\ [][NextTable]_vars

\* lines 183-203
MapDescToCode ==
    /\ UNCHANGED pipelineVars
    /\ pc = "map_call"
    /\ result' = map_desc_to_code(RenderDesc(arg_desc), arg_map)
    /\ pc' = "returned"
    /\ UNCHANGED <<refs, text_files, vocab, desc_map, ocr_summary, caller, arg_desc, arg_map>>
    /\ UNCHANGED allRunVars /\ UNCHANGED fileVars /\ UNCHANGED <<error, lines, parsed>>
    /\ UNCHANGED <<row_i, passA_rows, passB_ran>> /\ UNCHANGED passBVars

NextMap == MapDescToCode

\* a direct call of map_desc_to_code on one description
SpecMap == InitMap /\ [][NextMap]_vars

\* lines 155-160
DetectDocumentType ==
    /\ UNCHANGED pipelineVars
    /\ pc = "detect_call"
    /\ result' = detect_document_type(RenderDesc(arg_desc))
    /\ pc' = "returned"
    /\ UNCHANGED <<refs, text_files, vocab, desc_map, ocr_summary, caller, arg_desc, arg_map>>
    /\ UNCHANGED allRunVars /\ UNCHANGED fileVars /\ UNCHANGED <<error, lines, parsed>>
    /\ UNCHANGED <<row_i, passA_rows, passB_ran>> /\ UNCHANGED passBVars

NextDetect == DetectDocumentType

\* a direct call of detect_document_type on one text
SpecDetect == InitDetect /\ [][NextDetect]_vars

NextFile == ReadSingle \/ Fallback

\* a direct call of parse_file_with_report on one file without a table
SpecFile == InitFile /\ [][NextFile]_vars

(***************************************************************************)
(* verify_contract.py: the contract gate                                   *)
(***************************************************************************)
\* make_contract.py, lines 37-51
case_id == "2025-0000424475-GA"
min_events == 42
required_codes == {"PGII", "NOH", "POS", "OAF", "LET"}
date_validity_percent == 95
max_duplicate_rows == 5
expected_artifacts ==
    <<"court_docs_parsed.csv", "court_docs_audit.csv", "parse_report.json",
      "unknown_event_types.csv">>
CASE_ZERO_CONTRACT ==
    [case_id |-> case_id, min_events |-> min_events, required_codes |-> required_codes,
     quality_thresholds |-> [date_validity_percent |-> date_validity_percent,
                             max_duplicate_rows |-> max_duplicate_rows],
     expected_artifacts |-> expected_artifacts]
CONTRACT_FILE == "case_zero_contract.json"

\* s.split(sep) for a separator of one character
RECURSIVE NextSep(_, _, _)
NextSep(s, p, sep) == IF p > Len(s) \/ Ch(s, p) = sep THEN p ELSE NextSep(s, p + 1, sep)
RECURSIVE SplitAt(_, _, _)
SplitAt(s, start, sep) ==
    LET e == NextSep(s, start, sep)
    IN IF e > Len(s) THEN <<SubSeq(s, start, Len(s))>>
       ELSE <<SubSeq(s, start, e - 1)>> \o SplitAt(s, e + 1, sep)
\* int(s) for a string of digits
RECURSIVE ToNat(_)
ToNat(s) ==
    IF s = "" THEN 0
    ELSE 10 * ToNat(SubSeq(s, 1, Len(s) - 1))
         + (CHOOSE d \in 0..9 : ToString(d) = Ch(s, Len(s)))
IsNumber(s, lo, hi) == Len(s) \in lo..hi /\ \A n \in 1..Len(s) : Ch(s, n) \in Digits

\* the dates datetime accepts
IsLeap(y) == y % 4 = 0 /\ (y % 100 # 0 \/ y % 400 = 0)
DaysIn(m, y) ==
    IF m = 2 THEN (IF IsLeap(y) THEN 29 ELSE 28)
    ELSE IF m \in {4, 6, 9, 11} THEN 30 ELSE 31
IsDate(y, m, d) == y >= 1 /\ m \in 1..12 /\ d \in 1..DaysIn(m, y)
MonthNames ==
    <<"january", "february", "march", "april", "may", "june", "july", "august",
      "september", "october", "november", "december">>
\* %B and %b: a month name in full or cut to three letters, in any case;
\* 0 when the word is neither
MonthOf(w) ==
    LET M == {m \in 1..12 : lower(w) \in {MonthNames[m], SubSeq(MonthNames[m], 1, 3)}}
    IN IF M = {} THEN 0 ELSE CHOOSE m \in M : TRUE
\* %y: 69-99 are 19xx, 00-68 are 20xx
Century(yy) == IF yy >= 69 THEN 1900 + yy ELSE 2000 + yy

\* lines 29-53
parse_date(str) ==
    LET s == strip(str)
        slash == SplitAt(s, 1, "/")
        dash == SplitAt(s, 1, "-")
        words == SelectSeq(SplitAt(s, 1, " "), LAMBDA w : w # "")
        head == SubSeq(s, 1, 10)
    IN /\ s # ""
       /\ \/ /\ Len(slash) = 3                                    \* %m/%d/%Y
             /\ IsNumber(slash[1], 1, 2) /\ IsNumber(slash[2], 1, 2)
             /\ IsNumber(slash[3], 4, 4)
             /\ IsDate(ToNat(slash[3]), ToNat(slash[1]), ToNat(slash[2]))
          \/ /\ Len(dash) = 3                                     \* %Y-%m-%d
             /\ IsNumber(dash[1], 4, 4) /\ IsNumber(dash[2], 1, 2)
             /\ IsNumber(dash[3], 1, 2)
             /\ IsDate(ToNat(dash[1]), ToNat(dash[2]), ToNat(dash[3]))
          \/ /\ Len(slash) = 3                                    \* %m/%d/%y
             /\ IsNumber(slash[1], 1, 2) /\ IsNumber(slash[2], 1, 2)
             /\ IsNumber(slash[3], 2, 2)
             /\ IsDate(Century(ToNat(slash[3])), ToNat(slash[1]), ToNat(slash[2]))
          \/ /\ Len(slash) = 3                                    \* %Y/%m/%d
             /\ IsNumber(slash[1], 4, 4) /\ IsNumber(slash[2], 1, 2)
             /\ IsNumber(slash[3], 1, 2)
             /\ IsDate(ToNat(slash[1]), ToNat(slash[2]), ToNat(slash[3]))
          \/ /\ Len(words) = 3                                    \* %b %d %Y, %B %d %Y
             /\ MonthOf(words[1]) # 0 /\ IsNumber(words[2], 1, 2)
             /\ IsNumber(words[3], 4, 4)
             /\ IsDate(ToNat(words[3]), MonthOf(words[1]), ToNat(words[2]))
          \/ /\ Len(s) >= 10 /\ Ch(s, 5) = "-" /\ Ch(s, 8) = "-"  \* fromisoformat(s[:10])
             /\ IsNumber(SubSeq(head, 1, 4), 4, 4) /\ IsNumber(SubSeq(head, 6, 7), 2, 2)
             /\ IsNumber(SubSeq(head, 9, 10), 2, 2)
             /\ IsDate(ToNat(SubSeq(head, 1, 4)), ToNat(SubSeq(head, 6, 7)),
                       ToNat(SubSeq(head, 9, 10)))

(***************************************************************************)
(* The parsed CSV the gate reads.  Its rows are composed from a shape: n   *)
(* rows of the contract's case, of which `bad` hold a filed_date that is   *)
(* no date and the last `dup` repeat the signatures of the first `dup`     *)
(* (one more row repeats the first when `thrice` and dup > 0); the codes go *)
(* round the required codes but those of `lacking`; `others` rows of       *)
(* another case follow.                                                    *)
(***************************************************************************)
GoodDates == <<"01/06/2025", "2025-03-09", "3/9/25", "02/29/2024">>
BadDates == <<"", "February 14, 2025", "02/30/2025", "14 February 2025">>
CodeRound == <<"PGII", "NOH", "POS", "OAF", "LET", "", "MOT">>
CsvRow(case_no, filed_date, document_type, event_code) ==
    [case_number |-> case_no, filed_date |-> filed_date, document_type |-> document_type,
     event_type_code |-> event_code]
BaseRow(t, j) ==
    LET codes == SelectSeq(CodeRound, LAMBDA c : c \notin t.lacking)
        is_bad == j > t.dup /\ j <= t.dup + t.bad
    IN CsvRow(case_id,
              IF is_bad THEN BadDates[(j % Len(BadDates)) + 1]
              ELSE GoodDates[(j % Len(GoodDates)) + 1],
              "Filing " \o ToString(j),
              codes[((j - 1) % Len(codes)) + 1])
OtherRow == CsvRow("2024-0000000001-GA", "01/06/2025", "Letters of guardianship", "LET")
RowsOf(t) ==
    [j \in 1..t.n |->
        IF j > t.n - t.dup THEN BaseRow(t, j - (t.n - t.dup))
        ELSE IF t.thrice /\ t.dup > 0 /\ j = t.n - t.dup THEN BaseRow(t, 1)
        ELSE BaseRow(t, j)]
    \o [j \in 1..t.others |-> OtherRow]
CsvShapes ==
    [n : {min_events - 1, min_events, 60}, others : {0, 2}, lacking : {{}, {"LET"}},
     bad : {0, 2, 3, 4}, dup : {0, max_duplicate_rows, max_duplicate_rows + 1},
     thrice : BOOLEAN]

\* the value verify() returns and what it prints
Verdict(code, msgs) == [rc |-> code, printed |-> msgs]
\* lines 115-119 counting every row that repeats an earlier one
Dupes_rows(sigs) ==
    {k \in 1..Len(sigs) : \E e \in 1..(k - 1) : sigs[e] = sigs[k]}
\* lines 115-119: the signatures that occur more than once
Dupes(sigs) ==
    {sigs[k] : k \in {n \in 1..Len(sigs) : \E e \in 1..Len(sigs) : e # n /\ sigs[e] = sigs[n]}}
\* lines 68-125, the contract having been loaded
verify(dir, csv) ==
    LET contract == CASE_ZERO_CONTRACT
        missing == SelectSeq(contract.expected_artifacts, LAMBDA fn : fn \notin dir)
        case_zero_rows == SelectSeq(csv, LAMBDA r : r.case_number = contract.case_id)
        count == Len(case_zero_rows)
        found_codes == {case_zero_rows[k].event_type_code : k \in 1..count} \ {""}
        missing_codes == contract.required_codes \ found_codes
        valid_dates == Cardinality({k \in 1..count : parse_date(case_zero_rows[k].filed_date)})
        signatures == [k \in 1..count |->
                         <<case_zero_rows[k].case_number, case_zero_rows[k].filed_date,
                           case_zero_rows[k].document_type, case_zero_rows[k].event_type_code>>]
        dupes == Dupes(signatures)
        start == <<"Verifying Pipeline Artifacts...">>
    IN IF missing # <<>>
       THEN Verdict(1, start \o <<"FAIL: Missing expected artifacts">>)
       ELSE IF count < contract.min_events
       THEN Verdict(1, start \o <<"Artifacts present.", "FAIL: Found too few events">>)
       ELSE IF missing_codes # {}
       THEN Verdict(1, start \o <<"Artifacts present.", "FAIL: Missing required codes">>)
       ELSE IF count = 0 \/ valid_dates * 100 < contract.quality_thresholds.date_validity_percent * count
       THEN Verdict(1, start \o <<"Artifacts present.", "FAIL: Date quality below threshold">>)
       ELSE IF Cardinality(dupes) > contract.quality_thresholds.max_duplicate_rows
       THEN Verdict(1, start \o <<"Artifacts present.", "FAIL: Too many duplicate rows detected">>)
       ELSE Verdict(0, start \o <<"Artifacts present.", "SUCCESS: All contract checks passed.">>)

\* a data directory with or without the contract, and with all the expected
\* artifacts, all but one, or none
GateDirs ==
    LET all == {expected_artifacts[k] : k \in 1..Len(expected_artifacts)}
    IN {c \cup a : c \in {{}, {CONTRACT_FILE}},
                   a \in {all, {}} \cup {all \ {f} : f \in all}}

\* python verify_contract.py: verify() is about to be called
InitVerify ==
    /\ refs = AllPresent /\ text_files = <<>>
    /\ vocab = <<>> /\ desc_map = <<>> /\ ocr_summary = <<>>
    /\ fidx = 0 /\ rows = <<>> /\ report = <<>>
    /\ out = [written |-> FALSE, csv |-> <<>>, report |-> <<>>]
    /\ pc = "verify_call" /\ error = "" /\ caller = "direct"
    /\ returned = <<>>
    /\ arg_desc = <<>> /\ arg_map = <<>> /\ result = ""
    /\ NoFileState /\ NoTableState
    /\ data_dir \in GateDirs /\ start_dir = data_dir
    /\ table \in CsvShapes
    /\ killed = 0 /\ ran = <<>> /\ exit_code = -1 /\ printed = <<>>

ParserUnchanged ==
    /\ UNCHANGED <<refs, vocab, desc_map, ocr_summary, caller, arg_desc, arg_map>>
    /\ UNCHANGED allRunVars /\ UNCHANGED fileVars /\ UNCHANGED passAVars /\ UNCHANGED passBVars
    /\ UNCHANGED <<parsed, text_files>>

\* lines 21-24: load_contract ends the program when the contract is missing
VerifyExits ==
    /\ pc = "verify_call"
    /\ CONTRACT_FILE \notin data_dir
    /\ pc' = "raised"
    /\ error' = "SystemExit(1)"
    /\ printed' = <<"FAIL: Contract file missing">>
    /\ UNCHANGED <<result, data_dir, start_dir, table, killed, ran, exit_code>>
    /\ ParserUnchanged

\* lines 68-125
Verify ==
    /\ pc = "verify_call"
    /\ CONTRACT_FILE \in data_dir
    /\ LET v == verify(data_dir, RowsOf(table))
       IN /\ result' = v.rc
          /\ printed' = v.printed
    /\ pc' = "returned"
    /\ UNCHANGED <<error, data_dir, start_dir, table, killed, ran, exit_code>>
    /\ ParserUnchanged

NextVerify == Verify \/ VerifyExits

\* a direct call of verify() on one data directory
SpecVerify == InitVerify /\ [][NextVerify]_vars

(***************************************************************************)
(* run_pipeline.py                                                         *)
(***************************************************************************)
\* a pipeline that builds the unknown-type queue before the gate
STEPS_queue_before_gate ==
    <<"parse_court_docs.py", "audit_court_docs.py", "extract_unknown_event_types.py",
      "verify_contract.py">>
\* lines 7-12
STEPS ==
    <<"parse_court_docs.py", "audit_court_docs.py", "verify_contract.py",
      "extract_unknown_event_types.py">>
\* the return code of a process the system killed (SIGKILL)
KilledCode == 0 - 9
CASES_CSV == "cases.csv"

\* what a command does to the data directory, what it prints and the code it
\* exits with
Outcome(code, files, msgs) == [returncode |-> code, files |-> files, printed |-> msgs]
\* parse_court_docs.py, parse_all lines 474-501
ParseStep(dir, texts) ==
    IF texts = <<>> THEN Outcome(1, dir, <<"No text files found">>)
    ELSE Outcome(0, dir \cup {"court_docs_parsed.csv", "parse_report.json"}, <<>>)
\* audit_court_docs.py, main lines 168-185
AuditStep(dir) ==
    IF "court_docs_parsed.csv" \notin dir THEN Outcome(1, dir, <<"Parsed CSV not found">>)
    ELSE IF CASES_CSV \notin dir THEN Outcome(1, dir, <<"Cases CSV not found">>)
    ELSE Outcome(0, dir \cup {"court_docs_audit.csv"}, <<"Wrote audit issues">>)
\* verify_contract.py, lines 21-24 and 68-129
VerifyStep(dir, csv) ==
    IF CONTRACT_FILE \notin dir THEN Outcome(1, dir, <<"FAIL: Contract file missing">>)
    ELSE LET v == verify(dir, csv) IN Outcome(v.rc, dir, v.printed)
\* extract_unknown_event_types.py, main lines 44-76
ExtractStep(dir) ==
    IF "court_docs_parsed.csv" \notin dir THEN Outcome(1, dir, <<"FileNotFoundError">>)
    ELSE Outcome(0, dir \cup {"unknown_event_types.csv"}, <<"Wrote unknown descriptions">>)

\* lines 15-18: subprocess.run(cmd) as the k-th step
run(cmd, k) ==
    IF killed = k THEN Outcome(KilledCode, data_dir, <<>>)
    ELSE CASE cmd = "parse_court_docs.py" -> ParseStep(data_dir, text_files)
           [] cmd = "audit_court_docs.py" -> AuditStep(data_dir)
           [] cmd = "verify_contract.py" -> VerifyStep(data_dir, RowsOf(table))
           [] cmd = "extract_unknown_event_types.py" -> ExtractStep(data_dir)

\* the data directories a run starts from: the pipeline inputs (the contract,
\* the case registry) or not, and no artifact, a queue file left by an
\* earlier run, or all the artifacts of an earlier run
StartDirs ==
    {c \cup r \cup a : c \in {{}, {CONTRACT_FILE}}, r \in {{}, {CASES_CSV}},
                       a \in {{}, {"unknown_event_types.csv"},
                              {expected_artifacts[k] : k \in 1..Len(expected_artifacts)}}}
\* the parsed rows of a run: enough or one too few, with or without every code
PipelineShapes == {t \in CsvShapes : t.n <= min_events /\ t.others = 0 /\ t.bad = 0 /\ ~t.thrice}

\* python run_pipeline.py: main() is about to enter its loop
InitPipeline ==
    /\ refs = AllPresent
    /\ text_files \in {<<>>, <<FileNameOf(1)>>}
    /\ vocab = <<>> /\ desc_map = <<>> /\ ocr_summary = <<>>
    /\ fidx = 0 /\ rows = <<>> /\ report = <<>>
    /\ out = [written |-> FALSE, csv |-> <<>>, report |-> <<>>]
    /\ pc = "pipeline" /\ error = "" /\ caller = "run_pipeline"
    /\ returned = <<>>
    /\ arg_desc = <<>> /\ arg_map = <<>> /\ result = ""
    /\ NoFileState /\ NoTableState
    /\ data_dir \in StartDirs /\ start_dir = data_dir
    /\ table \in PipelineShapes
    /\ killed \in 0..Len(STEPS)
    /\ ran = <<>> /\ exit_code = -1 /\ printed = <<>>

\* lines 22-26: one turn of the loop over STEPS
RunStep ==
    /\ pc = "pipeline"
    /\ Len(ran) < Len(STEPS)
    /\ LET cmd == STEPS[Len(ran) + 1]
           r == run(cmd, Len(ran) + 1)
       IN /\ ran' = Append(ran, [cmd |-> cmd, rc |-> r.returncode])
          /\ data_dir' = r.files
          /\ IF r.returncode # 0
             THEN /\ printed' = printed \o r.printed \o <<"STOP: command failed">>
                  /\ exit_code' = r.returncode
                  /\ pc' = "pipeline_done"
             ELSE /\ printed' = printed \o r.printed
                  /\ UNCHANGED <<exit_code, pc>>
    /\ UNCHANGED <<start_dir, table, killed, result, error>>
    /\ ParserUnchanged

\* lines 27-28: the loop has run every step
AllDone ==
    /\ pc = "pipeline"
    /\ Len(ran) = Len(STEPS)
    /\ printed' = Append(printed, "ALL DONE: pipeline + contract + unknown queue")
    /\ exit_code' = 0
    /\ pc' = "pipeline_done"
    /\ UNCHANGED <<data_dir, start_dir, table, killed, ran, result, error>>
    /\ ParserUnchanged

NextPipeline == RunStep \/ AllDone

\* a run of run_pipeline.py
SpecPipeline == InitPipeline /\ [][NextPipeline]_vars

(***************************************************************************)
(* first_match over the case and date patterns                             *)
(***************************************************************************)
\* texts handed to first_match: phrases, each with the pattern of
\* CASE_PATTERNS or DATE_PATTERNS that it is an instance of
MatchPhrases ==
    {Word("2025-02-20", {"iso"}), Word("02/14/2025", {"slash"}),
     Word("March 3, 2025", {"month_day"}), Word("3 March 2025", {"day_month"}),
     Word("22-GA-1234", {"case_short"}), Word("2025-0000424475-GA", {"case_long"}),
     Word("2025-0000424476- GA", {"case_spaced"}), Word("DEMO-2025-0001", {"case_demo"})}
MatchTexts == SeqsUpTo(MatchPhrases, MaxWords)

\* first_match(CASE_PATTERNS, content) and first_match(DATE_PATTERNS, content)
\* called on one text, as parse_file_with_report does
InitFirst ==
    /\ NoPipeline
    /\ refs = AllMissing
    /\ text_files = <<>>
    /\ vocab = <<>> /\ desc_map = <<>> /\ ocr_summary = <<>>
    /\ fidx = 0 /\ rows = <<>> /\ report = <<>>
    /\ out = [written |-> FALSE, csv |-> <<>>, report |-> <<>>]
    /\ pc = "first_call" /\ error = "" /\ caller = "direct"
    /\ returned = <<>>
    /\ arg_desc \in MatchTexts /\ arg_map = <<>> /\ result = ""
    /\ NoFileState /\ NoTableState

\* lines 403 and 424
FirstMatch ==
    /\ pc = "first_call"
    /\ result' = [case_number |-> first_match(CASE_PATTERNS, RenderDesc(arg_desc)),
                  filed_date |-> first_match(DATE_PATTERNS, RenderDesc(arg_desc))]
    /\ pc' = "returned"
    /\ UNCHANGED pipelineVars
    /\ UNCHANGED <<refs, text_files, vocab, desc_map, ocr_summary, caller, arg_desc, arg_map>>
    /\ UNCHANGED allRunVars /\ UNCHANGED fileVars /\ UNCHANGED <<error, lines, parsed>>
    /\ UNCHANGED <<row_i, passA_rows, passB_ran>> /\ UNCHANGED passBVars

NextFirst == FirstMatch

\* a direct call of first_match on one text
SpecFirst == InitFirst /\ [][NextFirst]_vars

(***************************************************************************)
(* Properties of a run of parse_all (Spec)                                 *)
(***************************************************************************)
\* the file whose call of parse_file_with_report returned f-th
Returned(f) == returned[f]
\* the table output of a returned call was accepted: the table extractor ran
\* and found at least ten records
WasAccepted(r) == r.attempted /\ Len(r.table_rows) >= 10
IsTableRecord(r) == r.source_view = "MiCourt_EventList"
IsSingleRecord(r) == r.source_view = "ocr_pipeline"
\* the text of a document holds the word "events": the line of EventsHead that
\* carries it is the only line of the input documents that does
HoldsEventsWord(d) == \E k \in 1..Len(d) : d[k].text = "Register of Actions - Events"

\* C1: total coverage. parse_file_with_report never raises on a text it was
\* given (the run never stops on an UnboundLocalError inside the extractor),
\* and every call that returned brought at least one record.
C1_TotalCoverage ==
    /\ error # "UnboundLocalError"
    /\ \A f \in 1..Len(returned) : Len(Returned(f).rows) >= 1

\* C2: table/fallback arbitration. The table extractor works on a text only
\* when the text holds "events"; a call that returned gives back the table
\* records, unchanged and with strategy "table", exactly when there are at
\* least 10 of them, and otherwise exactly one single-document record with
\* strategy "fallback"; what it gives back is never a mix of the two.
C2_Arbitration ==
    /\ pc \in {"passA", "passB", "table_return"} => HoldsEventsWord(doc)
    /\ \A f \in 1..Len(returned) :
        LET r == Returned(f)
        IN /\ r.attempted = HoldsEventsWord(r.doc)
           /\ ~r.attempted => r.table_rows = <<>>
           /\ IF WasAccepted(r)
              THEN /\ r.entry.strategy_used = "table"
                   /\ r.rows = r.table_rows
                   /\ \A k \in 1..Len(r.rows) : IsTableRecord(r.rows[k])
              ELSE /\ r.entry.strategy_used = "fallback"
                   /\ Len(r.rows) = 1
                   /\ IsSingleRecord(r.rows[1])

\* a file accepted with exactly 10 table records, then one rejected with 9
C2_Witness ==
    /\ Len(returned) = 2
    /\ Len(Returned(1).table_rows) = 10 /\ Returned(1).entry.strategy_used = "table"
    /\ Len(Returned(2).table_rows) = 9 /\ Returned(2).entry.strategy_used = "fallback"
    /\ Len(Returned(2).rows) = 1

\* C8: per-file report entry. strategy_used is "table" exactly when the table
\* output was accepted and "fallback" otherwise; events_found is the number of
\* records returned for the file; warnings holds one warning naming the table
\* strategy and the number of table records found exactly when the table
\* extractor ran and its output was rejected, and is empty otherwise.
C8_ReportEntry ==
    \A f \in 1..Len(returned) :
        LET r == Returned(f)
            e == r.entry
        IN /\ e.strategy_used = (IF WasAccepted(r) THEN "table" ELSE "fallback")
           /\ e.events_found = Len(r.rows)
           /\ IF r.attempted /\ ~WasAccepted(r)
              THEN /\ Len(e.warnings) = 1
                   /\ StartsWith(e.warnings[1], "table strategy")
                   /\ Contains(e.warnings[1], " " \o ToString(Len(r.table_rows)) \o " ")
              ELSE e.warnings = <<>>

\* a text with "events" whose only table record came from Pass B: rejected,
\* with the warning naming the count 1
C8_Witness ==
    \E f \in 1..Len(returned) :
        /\ Returned(f).attempted
        /\ Len(Returned(f).table_rows) = 1
        /\ Returned(f).entry.warnings # <<>>

\* the records of the first n calls that returned, one file after the other
RECURSIVE RowsOfFirst(_)
RowsOfFirst(n) == IF n = 0 THEN <<>> ELSE RowsOfFirst(n - 1) \o Returned(n).rows
RECURSIVE EventsFoundOfFirst(_)
EventsFoundOfFirst(n) ==
    IF n = 0 THEN 0 ELSE EventsFoundOfFirst(n - 1) + report[n].events_found

\* C9: ordering of the aggregate output. The record sequence is the
\* concatenation, in input file order, of each file's records in the order
\* its extractor emitted them; the report has one entry per file in the same
\* order; the events_found of the report add up to the number of records; and
\* what is written at the end is that sequence and that report, one entry for
\* every input file.
C9_AggregateOrder ==
    /\ Len(returned) = Len(report) + (IF pc = "extend" THEN 1 ELSE 0)
    /\ rows = RowsOfFirst(Len(report))
    /\ \A f \in 1..Len(report) :
        /\ report[f] = Returned(f).entry
        /\ report[f].filename = text_files[f]
        /\ \A k \in 1..Len(Returned(f).rows) : Returned(f).rows[k].file_name = text_files[f]
        /\ WasAccepted(Returned(f)) => Returned(f).rows = Returned(f).table_rows
    /\ EventsFoundOfFirst(Len(report)) = Len(rows)
    /\ pc = "done" => /\ out.written
                      /\ out.csv = rows /\ out.report = report
                      /\ Len(report) = Len(text_files)

\* two files, the first parsed by the single-document extractor and the second
\* by the table extractor, written out
C9_Witness ==
    /\ pc = "done" /\ Len(text_files) = 2
    /\ report[1].strategy_used = "fallback" /\ report[2].strategy_used = "table"
    /\ Len(out.csv) > 10

\* C10: unreadable file isolation. A file that cannot be read does not end the
\* run: parse_all goes on to the other files and writes its outputs.
C10_UnreadableFileSkipped == error # "OSError"

(***************************************************************************)
(* Properties of a direct call of parse_events_table (SpecTable)           *)
(***************************************************************************)
IsRowLine(l) == l.kind = "row"
\* the row lines of a docket, in line order
RowLines(d) == SelectSeq(d, IsRowLine)
\* Pass A is over and the gate has been decided
AfterGate == pc \in {"passB", "table_return", "returned", "raised"}

\* C3: Pass B boundary gate. Pass B runs exactly when Pass A produced fewer
\* than 30 records; what Pass B emits comes after the records of Pass A, which
\* stay in the result unchanged and in order as its prefix; when Pass B does
\* not run the result is the records of Pass A.
C3_PassBGate ==
    /\ pc = "passB" => Len(passA_rows) < PassBLimit
    /\ AfterGate =>
        /\ passB_ran = (Len(passA_rows) < PassBLimit)
        /\ Len(passA_rows) = Len(RowLines(doc))
        /\ Len(parsed) >= Len(passA_rows)
        /\ SubSeq(parsed, 1, Len(passA_rows)) = passA_rows
        /\ ~passB_ran => parsed = passA_rows

\* 29 rows and one labelled block: Pass B ran and put its record after the 29
C3_Witness ==
    /\ pc = "returned" /\ passB_ran
    /\ Len(passA_rows) = PassBLimit - 1
    /\ Len(parsed) = PassBLimit
    /\ parsed[PassBLimit].notes = "parsed from events table (block)"

\* C4: Pass A emits one record for every row line and none for any other
\* line, in line order; the filed_date of a record is the date of its line and
\* its event_id the trailing number, whatever the blanks between the tokens.
C4_PassARows ==
    LET seen == IF pc = "passA" THEN SubSeq(doc, 1, row_i - 1) ELSE doc
        emitted == IF pc = "passA" THEN parsed ELSE passA_rows
        expected == RowLines(seen)
    IN /\ Len(emitted) = Len(expected)
       /\ \A k \in 1..Len(expected) :
            /\ emitted[k].filed_date = expected[k].date
            /\ emitted[k].event_id = expected[k].no
            /\ Contains(emitted[k].notes, "parsed from events table (row)")

\* 30 differently spaced rows followed by lines that are not rows
C4_Witness ==
    /\ pc = "returned"
    /\ Len(passA_rows) = PassBLimit
    /\ Len(doc) > PassBLimit
    /\ passA_rows[5].event_id = "5" /\ passA_rows[5].document_type = "PROOF OF SERVICE FORM 12"

\* every line of the docket is a row line, but for an optional header line
AllRowDocket(d) ==
    /\ RowLines(d) # <<>>
    /\ \A k \in 1..Len(d) :
        IsRowLine(d[k]) \/ (k = 1 /\ d[k].text = "Event Date  Description  Event No")

\* C5: no double counting of row-format dockets. On a docket whose lines are
\* all row lines (after an optional header line) parse_events_table does not
\* fail and returns exactly one record per row line.
C5_NoDoubleCounting ==
    AllRowDocket(doc) =>
        /\ pc # "raised"
        /\ pc = "returned" => Len(parsed) = Len(RowLines(doc))

(***************************************************************************)
(* Properties of a direct call of map_desc_to_code (SpecMap)               *)
(***************************************************************************)
\* the keywords spelled out by the words of the description
Spelled == UNION {arg_desc[k].kws : k \in 1..Len(arg_desc)}
OverrideMatch == \E k \in 1..Len(arg_map) : arg_map[k][1] \in Spelled

\* C6: keyword priority chain. Without an override match map_desc_to_code
\* returns the code of the first of PETITION, NOTICE, PROOF, ORDER, LETTER,
\* OBJECTION that the description holds, in that order, and the empty code
\* when it holds none; where the keywords stand in the text plays no part.
C6_KeywordChain ==
    (pc = "returned" /\ ~OverrideMatch) =>
        result = (IF "PETITION" \in Spelled THEN "PGII"
                  ELSE IF "NOTICE" \in Spelled THEN "NOH"
                  ELSE IF "PROOF" \in Spelled THEN "POS"
                  ELSE IF "ORDER" \in Spelled THEN "OAF"
                  ELSE IF "LETTER" \in Spelled THEN "LET"
                  ELSE IF "OBJECTION" \in Spelled THEN "OBJ"
                  ELSE "")

\* "Objection NOTICE Petition" without an override map resolves to PGII
C6_Witness ==
    /\ pc = "returned" /\ arg_map = <<>>
    /\ RenderDesc(arg_desc) = "Objection NOTICE Petition"
    /\ result = "PGII"

(***************************************************************************)
(* Properties of a direct call of detect_document_type (SpecDetect)         *)
(***************************************************************************)
\* C15: document-type priority. detect_document_type returns the label of the
\* first entry of the keyword table, in the order the table is written in,
\* whose keyword occurs in the lower-cased text, whatever the place of the
\* keywords in the text, and the empty string when no keyword occurs.
C15_FirstKeyword ==
    pc = "returned" =>
        result = (IF "petition" \in Spelled THEN "Petition"
                  ELSE IF "order appoint" \in Spelled THEN "Order appointing fiduciary"
                  ELSE IF "letters" \in Spelled THEN "Letters of authority"
                  ELSE IF "hearing notice" \in Spelled THEN "Hearing Notice"
                  ELSE IF "notice of hearing" \in Spelled THEN "Hearing Notice"
                  ELSE IF "proof of service" \in Spelled THEN "Proof of service"
                  ELSE IF "affidavit" \in Spelled THEN "Affidavit"
                  ELSE IF "objection" \in Spelled THEN "Objection"
                  ELSE IF "bond" \in Spelled THEN "Bond"
                  ELSE IF "evaluation" \in Spelled THEN "Evaluation"
                  ELSE "")

\* a text that holds "objection" before "petition" is classified as Petition
C15_Witness ==
    /\ pc = "returned"
    /\ RenderDesc(arg_desc) = "Objection PETITION for"
    /\ result = "Petition"

(***************************************************************************)
(* Event codes of the records of a run of parse_all (Spec)                 *)
(***************************************************************************)
\* the records the call of parse_file_with_report that just returned brought
JustReturned == IF pc = "extend" THEN Returned(Len(returned)).rows ELSE <<>>
\* the override keys that are a substring of the upper-cased description
OverrideHits(desc) == {k \in 1..Len(desc_map) : Contains(upper(desc), desc_map[k][1])}
IsBuiltInKey(desc) == \E k \in 1..Len(EVENT_MAP) : EVENT_MAP[k][1] = desc
FirstOf(S) == CHOOSE k \in S : \A m \in S : k <= m

\* C7 as stated: with an override map, a description that holds an override
\* key gets the value of the first such key in map order.
C7_OverrideFirst ==
    \A k \in 1..Len(JustReturned) :
        LET r == JustReturned[k]
            hits == OverrideHits(r.document_type)
        IN hits # {} => r.event_type_code = desc_map[FirstOf(hits)][2]

\* C7 amended: with an override map, a description that is exactly a key of
\* EVENT_MAP gets the code EVENT_MAP gives it; any other description that holds
\* an override key gets the value of the first such key in map order.
C7_OverrideAfterExactKey ==
    \A k \in 1..Len(JustReturned) :
        LET r == JustReturned[k]
            hits == OverrideHits(r.document_type)
        IN IF IsBuiltInKey(r.document_type)
           THEN r.event_type_code = DictGet(EVENT_MAP, r.document_type, "")
           ELSE hits # {} => r.event_type_code = desc_map[FirstOf(hits)][2]

\* a table of rows returned under an override map: "NOTICE OF HEARING" took the
\* override code and "Petition", a key of EVENT_MAP, kept PGII
C7_Witness ==
    /\ desc_map # <<>>
    /\ \E k \in 1..Len(JustReturned) :
        /\ JustReturned[k].document_type = "NOTICE OF HEARING"
        /\ JustReturned[k].event_type_code = "XHRG"
    /\ \E k \in 1..Len(JustReturned) :
        /\ JustReturned[k].document_type = "Petition"
        /\ OverrideHits("Petition") # {}
        /\ JustReturned[k].event_type_code = "PGII"

(***************************************************************************)
(* Properties of a direct call of parse_file_with_report (SpecFile)        *)
(***************************************************************************)
\* what the text of a document was composed with
HasLine(d, t) == \E k \in 1..Len(d) : d[k].text = t
HasCaseNumber(d) == HasLine(d, "Case No. 22-GA-1234")
HasDate(d) == HasLine(d, "filed 2025-02-14")
HasDocType(d) == HasLine(d, "Letters of guardianship")
\* the record of the single-document extractor, once the call has returned
SingleReturned == pc = "extend" /\ Len(JustReturned) = 1 /\ IsSingleRecord(JustReturned[1])
NoteSet(r) == {n \in {"case number not found", "very short text; manual check",
                      "OCR low confidence"} : Contains(r.notes, n)}

\* C11 as stated: in a single-document record each of the case number, the
\* filed date and the document type that was not found is an empty field and
\* comes with a note naming what was not found.
C11_AbsencesNoted ==
    SingleReturned =>
        LET r == JustReturned[1]
        IN /\ r.case_number = "" => Contains(lower(r.notes), "case number")
           /\ r.filed_date = "" => Contains(lower(r.notes), "date")
           /\ r.document_type = "" => Contains(lower(r.notes), "type")

\* C11: absences in a single-document record. A case number, a filed date or
\* a document type that the text does not hold is an empty field of the
\* record and one that it holds is filled in; a missing case number brings
\* the note "case number not found", a missing date or document type brings
\* no note (the notes are made of the case-number, short-text and OCR notes
\* only); the call returns its record and nothing is raised.
C11_AbsencesEmpty ==
    /\ error = ""
    /\ pc = "extend" => SingleReturned
    /\ SingleReturned =>
        LET r == JustReturned[1]
        IN /\ (r.case_number = "") = ~HasCaseNumber(doc)
           /\ (r.filed_date = "") = ~HasDate(doc)
           /\ (r.document_type = "") = ~HasDocType(doc)
           /\ ("case number not found" \in NoteSet(r)) = ~HasCaseNumber(doc)
           /\ r.notes = JoinWith(SelectSeq(<<"case number not found",
                                             "very short text; manual check",
                                             "OCR low confidence">>,
                                           LAMBDA n : n \in NoteSet(r)), "; ")
\* a long text with a case number but neither a date nor a document type has
\* returned a record without any note
C11_Witness ==
    /\ SingleReturned
    /\ HasCaseNumber(doc) /\ ~HasDate(doc) /\ ~HasDocType(doc)
    /\ JustReturned[1].filed_date = "" /\ JustReturned[1].document_type = ""
    /\ JustReturned[1].notes = ""

\* the OCR-flag table marks doc1.pdf as low-confidence and doc2.pdf as not
OcrFlagged == refs.ocr.exists /\ file_name = "doc1.txt"
\* the number of characters of the text of a document, and that number
\* without the empty lines (whitespace at the ends of the text is only ever
\* the newline of an empty last line)
TextLength(d) == Len(Render(d))
TrimmedLength(d) == Len(Render(SelectSeq(d, LAMBDA l : l.text # "")))

\* C13 as stated: the single-document record is flagged low-confidence
\* exactly when the length of the text is below 80 characters or the OCR
\* flag of the document is set.
C13_LowConfidenceByLength ==
    SingleReturned =>
        (JustReturned[1].low_confidence = "yes") = (TextLength(doc) < 80 \/ OcrFlagged)

\* C13: low-confidence rule. The single-document record is flagged
\* low-confidence exactly when the length of the text without the whitespace
\* at its two ends is below 80 characters or the OCR flag, looked up by the
\* stem of the file name, is set; the field is "yes" or "no".
C13_LowConfidence ==
    SingleReturned =>
        /\ JustReturned[1].low_confidence \in {"yes", "no"}
        /\ (JustReturned[1].low_confidence = "yes") = (TrimmedLength(doc) < 80 \/ OcrFlagged)
\* a text of exactly 80 characters without a flag was not flagged
C13_Witness ==
    /\ SingleReturned
    /\ TextLength(doc) = 80 /\ TrimmedLength(doc) = 80 /\ ~OcrFlagged
    /\ JustReturned[1].low_confidence = "no"

(***************************************************************************)
(* An input directory without text files (Spec)                            *)
(***************************************************************************)
\* C17: empty input set. When the input directory holds no text file,
\* parse_all stops on SystemExit before it has read a file or produced a
\* record, and neither the CSV nor the report is written.
C17_NoFilesAbort ==
    text_files = <<>> =>
        /\ pc \in {"main", "raised"}
        /\ pc = "raised" => error = "SystemExit"
        /\ out = [written |-> FALSE, csv |-> <<>>, report |-> <<>>]
        /\ rows = <<>> /\ report = <<>> /\ returned = <<>>
\* parse_all has stopped on SystemExit with nothing written
C17_Witness ==
    /\ text_files = <<>> /\ pc = "raised" /\ error = "SystemExit"
    /\ ~out.written

(***************************************************************************)
(* The strategy behind a record (Spec)                                     *)
(***************************************************************************)
\* the table extractor is in Pass B or has finished: the first records of
\* parsed are those Pass A made, the others are those of Pass B
PassesApart == pc \in {"passB", "table_return"}
ByPassA(k) == k <= Len(passA_rows)
\* the records a returned call brought are those of the single-document extractor
ByFallback(r) == r.entry.strategy_used = "fallback"

\* C14 as stated: source_view takes three values, different from one another,
\* for the single-document extractor, Pass A and Pass B.
C14_ThreeSourceViews ==
    /\ PassesApart =>
        \A j, k \in 1..Len(parsed) :
            ByPassA(j) /\ ~ByPassA(k) => parsed[j].source_view # parsed[k].source_view
    /\ \A f \in 1..Len(returned) :
        ByFallback(Returned(f)) =>
            \A k \in 1..Len(parsed) : Returned(f).rows[1].source_view # parsed[k].source_view

\* C14: source_view. A record of the single-document extractor has
\* source_view "ocr_pipeline" and an empty event_id; a record of Pass A and a
\* record of Pass B both have source_view "MiCourt_EventList" (and an
\* event_id); no record has any other source_view.
C14_SourceView ==
    /\ \A k \in 1..Len(parsed) :
        /\ parsed[k].source_view = "MiCourt_EventList"
        /\ parsed[k].event_id # ""
    /\ \A f \in 1..Len(returned) :
        LET r == Returned(f)
        IN IF ByFallback(r)
           THEN /\ Len(r.rows) = 1
                /\ r.rows[1].source_view = "ocr_pipeline"
                /\ r.rows[1].event_id = ""
           ELSE r.rows = r.table_rows
    /\ \A k \in 1..Len(rows) : rows[k].source_view \in {"ocr_pipeline", "MiCourt_EventList"}
\* nine records of Pass A and one of Pass B with the same source_view, after
\* a single-document record for an earlier file
C14_Witness ==
    /\ pc = "table_return"
    /\ Len(passA_rows) = 9 /\ Len(parsed) = 10
    /\ parsed[9].source_view = parsed[10].source_view
    /\ Len(returned) = 1 /\ ByFallback(Returned(1))
    /\ Returned(1).rows[1].event_id = ""

(***************************************************************************)
(* Reference tables and the fields they feed (Spec)                        *)
(***************************************************************************)
IsRowRecord(r) == Contains(r.notes, "parsed from events table (row)")
IsBlockRecord(r) == Contains(r.notes, "parsed from events table (block)")
\* the reference files have been loaded
Loaded == pc # "main"

\* C12 as stated: with an empty vocabulary every record, of the
\* single-document extractor, of Pass A and of Pass B, has a blank
\* event_type_label.
C12_EmptyVocabularyBlankLabel ==
    vocab = <<>> => \A k \in 1..Len(JustReturned) : JustReturned[k].event_type_label = ""

\* C12: missing reference tables. A vocabulary, override map or OCR-flag table
\* whose file is missing is loaded as the empty table. With an empty
\* vocabulary the single-document record has a blank event_type_label and a
\* record of Pass A or Pass B has its description (document_type) as label.
\* With an empty OCR-flag table no record carries the OCR note, and a record
\* is flagged low-confidence only for its short text or short description.
C12_MissingTablesEmpty ==
    /\ Loaded /\ ~refs.events.exists => vocab = <<>>
    /\ Loaded /\ ~refs.map.exists => desc_map = <<>>
    /\ Loaded /\ ~refs.ocr.exists => ocr_summary = <<>>
    /\ \A k \in 1..Len(JustReturned) :
        LET r == JustReturned[k]
        IN /\ vocab = <<>> /\ IsSingleRecord(r) => r.event_type_label = ""
           /\ vocab = <<>> /\ IsTableRecord(r) =>
                 r.event_type_label = r.document_type /\ r.document_type # ""
           /\ ocr_summary = <<>> =>
                 /\ ~Contains(r.notes, "OCR low confidence")
                 /\ r.low_confidence = "yes" =>
                       \/ Contains(r.notes, "very short text")
                       \/ Contains(r.notes, "description short")
\* without any reference file a docket of nine rows and one event block was
\* accepted: its last record, of Pass B, is labelled with its description
C12_Witness ==
    /\ ~refs.events.exists /\ vocab = <<>> /\ ocr_summary = <<>>
    /\ Len(JustReturned) = MinTableEvents
    /\ IsRowRecord(JustReturned[1])
    /\ IsBlockRecord(JustReturned[Len(JustReturned)])
    /\ JustReturned[Len(JustReturned)].event_type_label = "Petition for Guardianship"

(***************************************************************************)
(* Pass B: event blocks (SpecTable)                                        *)
(***************************************************************************)
\* C18: one record for every 'event no' line. Every line that Pass B handles
\* under the 'event no' rule adds exactly one record to the output, whatever
\* came before it (a queued description or none, a date or none), and
\* nothing is raised.
C18_EventNoEmitsOne ==
    [][AtLine("event_no") => (error' = "" /\ pc' = "passB" /\ Len(parsed') = Len(parsed) + 1)]_vars

Last(s) == s[Len(s)]
\* an 'event no' line is about to be handled with a queued pair
EventNoWithQueue == AtLine("event_no") /\ pending # <<>>

\* C19 as stated: an 'event no' line handled while the queue is not empty
\* removes the oldest queued pair and emits a record with the description of
\* that pair and the date that was current when the description was read.
C19_OldestPairEmitted ==
    [][EventNoWithQueue =>
         /\ pending' = Tail(pending)
         /\ Len(parsed') = Len(parsed) + 1
         /\ Last(parsed').document_type = pending[1][2]
         /\ Last(parsed').filed_date = pending[1][1]]_vars

\* C19: FIFO pairing. The queue only changes by a pair added at its end or
\* its oldest pair removed. An 'event no' line handled while the queue is not
\* empty removes the oldest pair; the date of the record is the date that
\* was current when the description was read, even if the current date has
\* changed since, or, when there was none then, the date current at the
\* 'event no' line; with a date, one record is added, with the description
\* of that pair, and without any date no record is added.
C19_FifoPairing ==
    [][/\ \/ pending' = pending
          \/ pending # <<>> /\ pending' = Tail(pending)
          \/ Len(pending') = Len(pending) + 1 /\ SubSeq(pending', 1, Len(pending)) = pending
       /\ EventNoWithQueue =>
            LET filed == IF pending[1][1] # "" THEN pending[1][1] ELSE current_date
            IN /\ pending' = Tail(pending)
               /\ error' = ""
               /\ IF filed = ""
                  THEN parsed' = parsed
                  ELSE /\ Len(parsed') = Len(parsed) + 1
                       /\ SubSeq(parsed', 1, Len(parsed)) = parsed
                       /\ Last(parsed').document_type = pending[1][2]
                       /\ Last(parsed').filed_date = filed]_vars
\* the description queued under 01/06/2025 was emitted with that date after
\* the current date had become 03/01/2025
C19_Witness ==
    /\ pc = "passB"
    /\ Len(parsed) = Len(passA_rows) + 1
    /\ Last(parsed).document_type = "Petition for Guardianship"
    /\ Last(parsed).filed_date = "01/06/2025"
    /\ current_date = "03/01/2025"

\* what the lines of the dockets are: a line that starts with a label of
\* label_stops, a line that holds a date, a blank line
IsStopLabelLine(l) ==
    l.text \in {"Event Date", "Event Date:", "Description", "Event No.", "Event No", "Comment",
                "Event Date  Description  Event No", "Event Date: 03/05/2025", "Party/Count"}
IsDateLine(l) ==
    l.kind = "row" \/ l.text \in {"03/01/2025", "  2025-03-09", "Event Date: 03/05/2025"}
IsBlankLine(l) == l.text = ""
\* the first position after `from` of a line that satisfies Ends, or the end of the input
FirstEnd(from, Ends(_)) ==
    LET E == {j \in (from + 1)..Len(lines) : Ends(doc[j])}
    IN IF E = {} THEN Len(lines) + 1 ELSE MinOf(E)
\* the non-blank lines between two positions, joined with single spaces
JoinedBetween(from, to) ==
    LET between == [k \in 1..(to - from - 1) |-> strip(doc[from + k].text)]
    IN JoinWith(SelectSeq(between, LAMBDA t : t # ""), " ")
EndsAsStated(l) == IsStopLabelLine(l) \/ IsDateLine(l)
EndsInCode(l) == IsStopLabelLine(l) \/ IsDateLine(l) \/ IsBlankLine(l)

\* C20 as stated: after a 'description' label the following non-blank lines
\* are joined with single spaces up to the first stop-label line, line with a
\* date or end of input, blank lines in between not ending the collection;
\* the pair (current date, description) is queued and parsing resumes at the
\* line that ended the collection.
C20_CollectionOverBlanks ==
    [][AtLine("description") =>
         LET stop == FirstEnd(i, EndsAsStated)
         IN /\ i' = stop
            /\ pending' = Append(pending, <<current_date, JoinedBetween(i, stop)>>)]_vars

\* C20: description collection. After a 'description' label the following
\* lines are joined with single spaces up to the first blank line,
\* stop-label line, line with a date or end of input; the pair (current
\* date, description) is added at the end of the queue unless the
\* description is empty; no record is made and the current date is kept;
\* parsing resumes at the line that ended the collection.
C20_DescriptionCollection ==
    [][AtLine("description") =>
         LET stop == FirstEnd(i, EndsInCode)
             joined == JoinedBetween(i, stop)
         IN /\ i' = stop
            /\ pending' = IF joined # "" THEN Append(pending, <<current_date, joined>>)
                          ELSE pending
            /\ parsed' = parsed /\ current_date' = current_date /\ error' = ""]_vars
\* the description "Order" was queued and parsing stands on the blank line
\* that ended it, before "appointing"
C20_Witness ==
    /\ pc = "passB"
    /\ pending # <<>> /\ Last(pending) = <<"03/01/2025", "Order">>
    /\ i > 1 /\ i < Len(lines)
    /\ lines[i - 1] = "Order" /\ lines[i] = "" /\ lines[i + 1] = "appointing"

(***************************************************************************)
(* The current date of Pass B (lines 335-349)                              *)
(***************************************************************************)
\* what the lines of the dockets are, read off the line descriptors: a line
\* that starts with the 'event date' label, the date a line holds
IsEventDateLabel(l) ==
    l.text \in {"Event Date", "Event Date:", "Event Date: 03/05/2025",
                "Event Date  Description  Event No"}
DateOnLine(l) ==
    IF l.kind = "row" THEN l.date
    ELSE IF l.text = "03/01/2025" THEN "03/01/2025"
    ELSE IF l.text = "Event Date: 03/05/2025" THEN "03/05/2025"
    ELSE IF l.text = "  2025-03-09" THEN "2025-03-09"
    ELSE ""
\* the date on the first non-blank line after position `from`, "" when that
\* line holds none or the input ends first
DateAfter(from) ==
    LET N == {j \in (from + 1)..Len(doc) : ~IsBlankLine(doc[j])}
    IN IF N = {} THEN "" ELSE DateOnLine(doc[MinOf(N)])
\* Pass B stands on a line of the input
OnLine == pc = "passB" /\ i <= Len(lines)

\* C21 as stated: the current date changes in exactly two situations, and
\* an 'event date' line that is not followed by a date leaves it unchanged.
C21_DateUpdateRule ==
    [][OnLine =>
         current_date' =
             IF IsEventDateLabel(doc[i])
             THEN (IF DateAfter(i) # "" THEN DateAfter(i) ELSE current_date)
             ELSE IF current_date = "" /\ DateOnLine(doc[i]) # "" THEN DateOnLine(doc[i])
             ELSE current_date]_vars

\* C21: the current date. At an 'event date' label line the current date
\* becomes the date on the next non-blank line, or when that line holds no
\* date the date on the label line itself, and stays as it is when neither
\* holds one; at any other line it becomes the date on that line if no date
\* has been set yet and the line holds one; in every other case it is
\* unchanged, so once set a date on a line without the label never changes it.
C21_CurrentDate ==
    [][OnLine =>
         current_date' =
             IF IsEventDateLabel(doc[i])
             THEN (IF DateAfter(i) # "" THEN DateAfter(i)
                   ELSE IF DateOnLine(doc[i]) # "" THEN DateOnLine(doc[i])
                   ELSE current_date)
             ELSE IF current_date = "" /\ DateOnLine(doc[i]) # "" THEN DateOnLine(doc[i])
             ELSE current_date]_vars
\* after "Event Date", "03/01/2025" the line "Event Date: 03/05/2025" was
\* followed by "Party/Count" and its own date replaced the current date
C21_Witness ==
    /\ pc = "passB" /\ i = 4
    /\ lines[1] = "Event Date" /\ lines[2] = "03/01/2025"
    /\ lines[3] = "Event Date: 03/05/2025" /\ lines[4] = "Party/Count"
    /\ current_date = "03/05/2025"

(***************************************************************************)
(* Confidence of table records (lines 230-247, 295-303)                    *)
(***************************************************************************)
\* a step of either pass that adds a record
EmitsRecord == pc \in {"passA", "passB"} /\ Len(parsed') = Len(parsed) + 1
\* the description the step took from the source: the description of the row
\* for Pass A, the description of the oldest queued pair or else the current
\* description for Pass B
SourceDescription ==
    IF pc = "passA" THEN doc[row_i].desc
    ELSE IF pending # <<>> THEN pending[1][2]
    ELSE current_desc

\* C22: confidence of table records. Every record of Pass A and of Pass B is
\* flagged low-confidence exactly when the trimmed description taken from the
\* source is shorter than 3 characters, an empty one included, or the OCR
\* flag of the document is set; a short description adds the note
\* 'description short'.
C22_TableConfidence ==
    [][EmitsRecord =>
         LET r == parsed'[Len(parsed')]
             short == Len(strip(SourceDescription)) < 3
         IN /\ (r.low_confidence = "yes") = (short \/ OcrFlagged)
            /\ short => Contains(r.notes, "description short")]_vars

(***************************************************************************)
(* Event ids and the running number of Pass B (lines 287-296, 305-324)     *)
(***************************************************************************)
\* the digits of the first non-blank line after position `from`, "" when
\* that line holds none or the input ends first
DigitsAfter(from) ==
    LET N == {j \in (from + 1)..Len(doc) : ~IsBlankLine(doc[j])}
    IN IF N = {} THEN "" ELSE DigitsOnly(doc[MinOf(N)].text)

\* C23: Pass B event ids. The event_id of a Pass B record is case-date-N,
\* N being the digits of the next non-blank line after the 'event no' line
\* or, when it holds none, the running number seq written with at least two
\* digits; seq starts at the number of Pass A records plus one and goes up by
\* one with every Pass B record, so it is always the number of records
\* emitted so far plus one.
C23_EventIds ==
    [][/\ (pc = "passA" /\ pc' = "passB") => seq' = Len(passA_rows') + 1
       /\ pc' = "passB" => seq' = Len(parsed') + 1
       /\ (AtLine("event_no") /\ Len(parsed') = Len(parsed) + 1) =>
             LET r == parsed'[Len(parsed')]
                 number == IF DigitsAfter(i) # "" THEN DigitsAfter(i)
                           ELSE IF seq < 10 THEN "0" \o ToString(seq) ELSE ToString(seq)
             IN /\ r.event_id = case_number \o "-" \o r.filed_date \o "-" \o number
                /\ seq' = seq + 1]_vars
\* 29 rows, then an event block whose 'event no' line is the last line: the
\* record is numbered 30
C23_Witness ==
    /\ pc = "returned"
    /\ Len(passA_rows) = PassBLimit - 1
    /\ Len(parsed) = PassBLimit
    /\ parsed[PassBLimit].event_id = "2025-TEST-03/01/2025-30"

(***************************************************************************)
(* Lines Pass B skips (lines 326-379)                                      *)
(***************************************************************************)
\* what the lines of the dockets are: a 'description' label line, a line
\* that holds "event no" in whatever case
IsDescriptionLabel(l) == l.text = "Description"
HoldsEventNo(l) ==
    \/ l.text \in {"Event No.", "Event No", "Event Date  Description  Event No"}
    \/ l.kind = "row" /\ l.desc = "EVENT NOTICE"
\* a line no branch of the loop is for: not blank, none of the three labels,
\* and not a line whose date is taken because none is set
Unrecognised(l) ==
    /\ ~IsBlankLine(l) /\ ~IsEventDateLabel(l) /\ ~IsDescriptionLabel(l) /\ ~HoldsEventNo(l)
    /\ ~(current_date = "" /\ DateOnLine(l) # "")

\* C24: skipped lines. A blank line and a line that is not recognised leave
\* the current date, the queue, the running number and the records emitted
\* as they are; parsing moves on by one line.
C24_SkippedLines ==
    [][(OnLine /\ (IsBlankLine(doc[i]) \/ Unrecognised(doc[i]))) =>
         /\ i' = i + 1
         /\ UNCHANGED <<current_date, pending, seq, parsed>>
         /\ pc' = "passB" /\ error' = ""]_vars
\* "served by mail" has just been skipped with a date set and a description
\* queued
C24_Witness ==
    /\ pc = "passB" /\ i > 1 /\ i <= Len(lines) + 1
    /\ lines[i - 1] = "served by mail"
    /\ current_date = "03/01/2025" /\ pending # <<>>

(***************************************************************************)
(* Termination of Pass B (lines 326-381)                                   *)
(***************************************************************************)
\* C26: Pass B terminates. Every turn of the loop moves the line index
\* strictly forward, the jump over a collected description included, so no
\* position is visited twice, and the pass always returns: it never ends by
\* raising.
C26_PassBTerminates ==
    [][pc = "passB" =>
         /\ i <= Len(lines) => i' > i
         /\ i > Len(lines) => pc' = "table_return"
         /\ pc' # "raised"]_vars

(***************************************************************************)
(* The current description and the queue (lines 351-377)                   *)
(***************************************************************************)
\* C27: a current description that is not empty is also in the queue, as
\* its newest pair; so with an empty queue the current description is empty,
\* and a record emitted at an 'event no' line met with an empty queue has
\* the document_type "Unknown": it never repeats a description already
\* emitted.
C27_CurrentDescriptionQueued ==
    [][/\ (pc' = "passB" /\ desc_bound' /\ current_desc' # "") =>
             (pending' # <<>> /\ pending'[Len(pending')][2] = current_desc')
       /\ (AtLine("event_no") /\ pending = <<>> /\ Len(parsed') = Len(parsed) + 1) =>
             /\ current_desc = ""
             /\ parsed'[Len(parsed')].document_type = "Unknown"]_vars
\* "Event Date", "03/01/2025", "Description", "NA", then two 'event no'
\* lines: the second met an empty queue and emitted "Unknown"
C27_Witness ==
    /\ pc = "returned" /\ passA_rows = <<>>
    /\ Len(parsed) = 2
    /\ parsed[1].document_type = "NA"
    /\ parsed[2].document_type = "Unknown"

(***************************************************************************)
(* The contract gate (verify_contract.py, lines 68-125)                    *)
(***************************************************************************)
\* what holds of the data directory and of the rows of the contract's case,
\* read off the shape the rows were composed from
ArtifactsExist == \A k \in 1..Len(expected_artifacts) : expected_artifacts[k] \in data_dir
EnoughRows == table.n >= 42
CodesOccur == table.lacking = {}
DatesParse == (table.n - table.bad) * 100 >= 95 * table.n
FewDuplicates == table.dup <= 5
\* the message of the first check that fails, in the order of the checks
FirstFailure ==
    IF ~ArtifactsExist THEN "FAIL: Missing expected artifacts"
    ELSE IF ~EnoughRows THEN "FAIL: Found too few events"
    ELSE IF ~CodesOccur THEN "FAIL: Missing required codes"
    ELSE IF ~DatesParse THEN "FAIL: Date quality below threshold"
    ELSE IF ~FewDuplicates THEN "FAIL: Too many duplicate rows detected"
    ELSE "SUCCESS: All contract checks passed."
VerifyReturned == pc = "returned" /\ printed # <<>>

FreshRun ==
    /\ caller = "run_pipeline"
    /\ start_dir = {CONTRACT_FILE, CASES_CSV} /\ text_files # <<>> /\ killed = 0
    /\ EnoughRows /\ CodesOccur /\ DatesParse /\ FewDuplicates

\* C25: artifact ordering. Every artifact the contract gate requires is
\* written by a step that runs before the gate, so a fresh run whose parsed
\* rows meet the thresholds finds them all when the gate starts and ends
\* with 'ALL DONE'.
C25_FreshRunCompletes ==
    FreshRun =>
        /\ (pc = "pipeline" /\ Len(ran) = 2) => ArtifactsExist
        /\ pc = "pipeline_done" =>
              /\ exit_code = 0
              /\ printed[Len(printed)] = "ALL DONE: pipeline + contract + unknown queue"

\* C28: step order. The steps run in the listed order, one after the other;
\* the run stops at the first step that exits non-zero, runs no step after
\* it and returns its exit code; it returns 0 exactly when every step has
\* run and exited 0.
C28_StepOrder ==
    caller = "run_pipeline" =>
        LET listed == <<"parse_court_docs.py", "audit_court_docs.py", "verify_contract.py",
                        "extract_unknown_event_types.py">>
            all_zero == \A k \in 1..Len(ran) : ran[k].rc = 0
        IN /\ Len(ran) <= 4
           /\ \A k \in 1..Len(ran) : ran[k].cmd = listed[k]
           /\ \A k \in 1..(Len(ran) - 1) : ran[k].rc = 0
           /\ pc = "pipeline" => (all_zero /\ exit_code = -1)
           /\ (pc = "pipeline_done" /\ ~all_zero) => exit_code = ran[Len(ran)].rc
           /\ (exit_code = 0) = (pc = "pipeline_done" /\ Len(ran) = 4 /\ all_zero)
\* the audit was killed: the run stopped after two steps and returned -9
C28_Witness ==
    /\ pc = "pipeline_done" /\ Len(ran) = 2
    /\ ran[1].rc = 0 /\ ran[2].rc = -9
    /\ exit_code = -9

(***************************************************************************)
(* Priority of the patterns (first_match, lines 147-152)                   *)
(***************************************************************************)
\* the first phrase of the text that is an instance of the pattern, "" when
\* the text holds none
FirstPhrase(kind) ==
    LET K == {k \in 1..Len(arg_desc) : kind \in arg_desc[k].kws}
    IN IF K = {} THEN "" ELSE arg_desc[MinOf(K)].w
\* the first of the listed kinds of which the text holds an instance, and
\* the first such instance
ByPriority(kinds) ==
    LET H == {n \in 1..Len(kinds) : FirstPhrase(kinds[n]) # ""}
    IN IF H = {} THEN "" ELSE FirstPhrase(kinds[MinOf(H)])

\* C30: priority beats position. first_match returns the match of the
\* earliest pattern of the list that matches anywhere in the text, even when
\* a pattern listed later matches further to the left, and "" when none
\* matches: the case number follows the order of the case patterns, and the
\* date is an ISO date if the text holds one anywhere, else a US-slash date,
\* else a month-name date, else empty.
C30_PatternPriority ==
    pc = "returned" =>
        /\ result.filed_date = ByPriority(<<"iso", "slash", "month_day", "day_month">>)
        /\ result.case_number =
              ByPriority(<<"case_short", "case_long", "case_spaced", "case_demo">>)
\* a US-slash date stands before the ISO date: the ISO date is returned
C30_Witness ==
    /\ pc = "returned"
    /\ RenderDesc(arg_desc) = "02/14/2025 2025-02-20 22-GA-1234"
    /\ result.filed_date = "2025-02-20"
    /\ result.case_number = "22-GA-1234"

====
